---- MODULE Spec2Model ----
(***************************************************************************)
(* Response field-transformation engine of the CoCart SDK: the currency    *)
(* pipeline (src/src/utils/currency.ts) and the timezone pipeline          *)
(* (utils/timezone.ts, src/unnamed/part_010), over an explicit JavaScript  *)
(* heap so that copies, references and in-place writes are distinguished.  *)
(***************************************************************************)
EXTENDS Integers, Sequences, FiniteSets, TLC

VARIABLES heap, response, currencyConfig, timezoneConfig, host, last

vars == <<heap, response, currencyConfig, timezoneConfig, host, last>>

(***************************************************************************)
(* JavaScript values.  A primitive is a tagged record; an object or an     *)
(* array is a reference [t |-> "object", a |-> address] into the heap, a   *)
(* sequence of cells.  A number is the decimal m * 10^(-e), or NaN.        *)
(***************************************************************************)
Undefined == [t |-> "undefined"]
Null == [t |-> "null"]
Bool(b) == [t |-> "boolean", b |-> b]
Dec(m, e) == [t |-> "number", nan |-> FALSE, m |-> m, e |-> e]
Num(n) == Dec(n, 0)
NaN == [t |-> "number", nan |-> TRUE, m |-> 0, e |-> 0]
Str(s) == [t |-> "string", s |-> s]
Ref(a) == [t |-> "object", a |-> a]
Thrown(name) == [t |-> "throw", e |-> name]

IsThrown(v) == v.t = "throw"

\* typeof v; typeof null is 'object'.
typeof(v) == IF v.t = "null" THEN "object" ELSE v.t

\* ToBoolean(v): undefined, null, false, 0, NaN and '' are falsy.
Truthy(v) ==
    CASE v.t = "undefined" -> FALSE
      [] v.t = "null" -> FALSE
      [] v.t = "boolean" -> v.b
      [] v.t = "number" -> ~v.nan /\ v.m # 0
      [] v.t = "string" -> v.s # ""
      [] OTHER -> TRUE

\* Heap cells: a plain object (own enumerable string keys) or an array.
ObjCell(f) == [kind |-> "obj", f |-> f, items |-> <<>>]
ArrCell(items) == [kind |-> "arr", f |-> <<>>, items |-> items]
NoFields == [k \in {} |-> Undefined]

IsRef(v) == v.t = "object"
IsArray(h, v) == IsRef(v) /\ h[v.a].kind = "arr"
IsPlainObject(h, v) == IsRef(v) /\ h[v.a].kind = "obj"

\* Own keys of the object a reference denotes (none for an array or a primitive).
Keys(h, v) == IF IsPlainObject(h, v) THEN DOMAIN h[v.a].f ELSE {}

\* `key in v` for a reference v.
HasKey(h, v, key) == key \in Keys(h, v)

\* v.key / v[key]: undefined when the key is absent or v is a primitive.
\* (Reading a property of undefined or null raises TypeError; Get is only
\* applied to values already known to be truthy.)
Get(h, v, key) == IF HasKey(h, v, key) THEN h[v.a].f[key] ELSE Undefined

\* A fixed enumeration of a finite set (Object.keys order; the walkers have
\* no dependency between sibling keys, so any fixed order serves).
RECURSIVE SetToSeq(_)
SetToSeq(S) ==
    IF S = {} THEN <<>>
    ELSE LET x == CHOOSE y \in S : TRUE IN <<x>> \o SetToSeq(S \ {x})

(***************************************************************************)
(* Strings.  TLC strings support Len, \o and SubSeq.                       *)
(***************************************************************************)
Char(s, i) == SubSeq(s, i, i)
startsWith(s, p) == Len(p) <= Len(s) /\ SubSeq(s, 1, Len(p)) = p
endsWith(s, p) == Len(p) <= Len(s) /\ SubSeq(s, Len(s) - Len(p) + 1, Len(s)) = p
includes(s, p) == \E i \in 1..(Len(s) - Len(p) + 1) : SubSeq(s, i, i + Len(p) - 1) = p

Digits == {"0", "1", "2", "3", "4", "5", "6", "7", "8", "9"}
DigitChars == <<"0", "1", "2", "3", "4", "5", "6", "7", "8", "9">>
DigitVal(c) == (CHOOSE i \in 1..10 : DigitChars[i] = c) - 1
IsDigit(s, i) == i >= 1 /\ i <= Len(s) /\ Char(s, i) \in Digits

RECURSIVE Pow10(_)
Pow10(n) == IF n <= 0 THEN 1 ELSE 10 * Pow10(n - 1)

\* Value of the decimal digits s[i..j].
RECURSIVE DigitsToInt(_, _, _)
DigitsToInt(s, i, j) ==
    IF j < i THEN 0 ELSE DigitsToInt(s, i, j - 1) * 10 + DigitVal(Char(s, j))

\* Decimal digits of a natural number.
RECURSIVE IntToStr(_)
IntToStr(n) ==
    IF n < 10 THEN DigitChars[n + 1]
    ELSE IntToStr(n \div 10) \o DigitChars[(n % 10) + 1]

\* First index >= i of s that holds no digit.
RECURSIVE DigitRunEnd(_, _)
DigitRunEnd(s, i) == IF IsDigit(s, i) THEN DigitRunEnd(s, i + 1) ELSE i

\* First index >= i of s that holds no white space.
RECURSIVE SkipSpaces(_, _)
SkipSpaces(s, i) ==
    IF i <= Len(s) /\ Char(s, i) = " " THEN SkipSpaces(s, i + 1) ELSE i

RECURSIVE ZeroPadLeft(_, _)
ZeroPadLeft(s, width) == IF Len(s) >= width THEN s ELSE ZeroPadLeft("0" \o s, width)

\* parseFloat(s): leading white space, an optional sign, then the longest
\* prefix of the form digits [. digits] or . digits; NaN when there is none.
\* (Exponents and 'Infinity' are not produced by the inputs of this model.)
parseFloat(s) ==
    LET i0 == SkipSpaces(s, 1)
        neg == i0 <= Len(s) /\ Char(s, i0) = "-"
        i1 == IF i0 <= Len(s) /\ Char(s, i0) \in {"-", "+"} THEN i0 + 1 ELSE i0
        i2 == DigitRunEnd(s, i1)
        dot == i2 <= Len(s) /\ Char(s, i2) = "."
        i3 == IF dot THEN DigitRunEnd(s, i2 + 1) ELSE i2
        nInt == i2 - i1
        nFrac == IF dot THEN i3 - (i2 + 1) ELSE 0
        mag == DigitsToInt(s, i1, i2 - 1) * Pow10(nFrac)
                 + (IF nFrac > 0 THEN DigitsToInt(s, i2 + 1, i3 - 1) ELSE 0)
    IN  IF nInt = 0 /\ nFrac = 0 THEN NaN
        ELSE Dec(IF neg THEN 0 - mag ELSE mag, nFrac)

\* String(v) / template-literal interpolation of a primitive.
ToStr(v) ==
    CASE v.t = "string" -> v.s
      [] v.t = "undefined" -> "undefined"
      [] v.t = "null" -> "null"
      [] v.t = "boolean" -> IF v.b THEN "true" ELSE "false"
      [] v.t = "number" ->
           IF v.nan THEN "NaN"
           ELSE LET mag == IF v.m < 0 THEN 0 - v.m ELSE v.m
                    ds == ZeroPadLeft(IntToStr(mag), v.e + 1)
                    n == Len(ds)
                IN  (IF v.m < 0 THEN "-" ELSE "")
                      \o SubSeq(ds, 1, n - v.e)
                      \o (IF v.e > 0 THEN "." \o SubSeq(ds, n - v.e + 1, n) ELSE "")
      [] OTHER -> "[object Object]"

\* ToNumber(v) for the values a currency_minor_unit may hold.
ToNumber(v) ==
    CASE v.t = "number" -> v
      [] v.t = "null" -> Num(0)
      [] v.t = "boolean" -> IF v.b THEN Num(1) ELSE Num(0)
      [] v.t = "string" ->
           IF v.s = "" THEN Num(0)
           ELSE IF DigitRunEnd(v.s, 1) = Len(v.s) + 1 THEN parseFloat(v.s) ELSE NaN
      [] OTHER -> NaN

(***************************************************************************)
(* Currency pipeline: src/src/utils/currency.ts                            *)
(***************************************************************************)
COMMON_CURRENCY_FIELDS ==
    <<"price", "regular_price", "sale_price", "subtotal", "total", "tax",
      "fee_total", "discount_total", "shipping_total", "total_tax", "fee_tax",
      "discount_tax", "shipping_tax", "line_subtotal", "line_total", "line_tax",
      "line_subtotal_tax", "amount", "cost">>

\* |m| / d rounded half away from zero.
RoundHalfAway(m, d) == ((IF m < 0 THEN 0 - m ELSE m) * 2 + d) \div (2 * d)

\* Digit grouping of the host locale (en-US: groups of three, ',').
RECURSIVE GroupDigits(_)
GroupDigits(ds) ==
    IF Len(ds) <= 3 THEN ds
    ELSE GroupDigits(SubSeq(ds, 1, Len(ds) - 3)) \o "," \o SubSeq(ds, Len(ds) - 2, Len(ds))

\* The decimal x = m * 10^(-e) / 10^digits rendered with exactly `digits`
\* fraction digits (decimal point '.'), grouped or not.
FixedDigits(x, digits, grouped) ==
    LET r == RoundHalfAway(x.m, Pow10(x.e))
        ds == ZeroPadLeft(IntToStr(r), digits + 1)
        n == Len(ds)
        int == SubSeq(ds, 1, n - digits)
    IN  (IF x.m < 0 THEN "-" ELSE "")
          \o (IF grouped THEN GroupDigits(int) ELSE int)
          \o (IF digits > 0 THEN "." \o SubSeq(ds, n - digits + 1, n) ELSE "")

\* new Intl.NumberFormat(undefined, {minimumFractionDigits: d,
\* maximumFractionDigits: d, style: 'decimal'}) raises RangeError unless d is
\* undefined or an integer in 0..20.
NumberFormatRejects(d) ==
    d.t # "undefined" /\ (ToNumber(d).nan \/ ToNumber(d).m < 0 \/ ToNumber(d).m > 20)

\* Number.prototype.toFixed(d) raises RangeError unless 0 <= d <= 100.
ToFixedRejects(d) == ~ToNumber(d).nan /\ (ToNumber(d).m < 0 \/ ToNumber(d).m > 100)

\* A formatter that skips the division by 10^minor_unit (it renders 42.99
\* as '$42.99', as src/unnamed/part_004 lines 49-52 expect): property C5
\* tells it from formatCurrencyValue.
formatCurrencyValue_Undivided(h, value, currency) ==
    LET x == IF value.t = "string" THEN parseFloat(value.s) ELSE value
        d == ToNumber(Get(h, currency, "currency_minor_unit"))
        prefix == Get(h, currency, "currency_prefix")
        suffix == Get(h, currency, "currency_suffix")
        formatted == FixedDigits(Dec(x.m * Pow10(d.m), x.e), d.m, TRUE)
    IN  IF x.nan THEN Str(ToStr(value))
        ELSE IF Truthy(prefix) /\ ~Truthy(suffix) THEN Str(ToStr(prefix) \o formatted)
        ELSE IF ~Truthy(prefix) /\ Truthy(suffix) THEN Str(formatted \o ToStr(suffix))
        ELSE IF Truthy(prefix) /\ Truthy(suffix) THEN
            Str(ToStr(prefix) \o formatted \o ToStr(suffix))
        ELSE Str(ToStr(Get(h, currency, "currency_symbol")) \o formatted)

\* formatCurrencyValue(value, currency) with `currency` a value of heap h.
\* x is the parsed value before the division by 10^minor_unit; the division
\* moves the decimal point, which FixedDigits undoes when it renders.
formatCurrencyValue(h, value, currency) ==
    LET x == IF value.t = "string" THEN parseFloat(value.s) ELSE value
        unit == Get(h, currency, "currency_minor_unit")
        d == ToNumber(unit)
        prefix == Get(h, currency, "currency_prefix")
        suffix == Get(h, currency, "currency_suffix")
        symbol == Get(h, currency, "currency_symbol")
        formatted == IF d.nan THEN "NaN" ELSE FixedDigits(x, d.m, TRUE)
    IN  IF x.nan THEN Str(ToStr(value))
        ELSE IF ~NumberFormatRejects(unit) THEN
            IF Truthy(prefix) /\ ~Truthy(suffix) THEN
                Str(ToStr(prefix) \o formatted)
            ELSE IF ~Truthy(prefix) /\ Truthy(suffix) THEN
                Str(formatted \o ToStr(suffix))
            ELSE IF Truthy(prefix) /\ Truthy(suffix) THEN
                Str(ToStr(prefix) \o formatted \o ToStr(suffix))
            ELSE Str(ToStr(symbol) \o formatted)
        ELSE IF ToFixedRejects(unit) THEN Thrown("RangeError")
        ELSE Str(ToStr(symbol)
                   \o (IF d.nan THEN "NaN" ELSE FixedDigits(x, d.m, FALSE)))

\* A classifier without the `${field}_` rule of line 208: property C8 tells
\* it from isCurrencyField.
isCurrencyField_SuffixOnly(fieldName, currencyFields) ==
    \/ \E i \in 1..Len(currencyFields) : currencyFields[i] = fieldName
    \/ \E i \in 1..Len(currencyFields) : endsWith(fieldName, "_" \o currencyFields[i])

\* isCurrencyField(fieldName, currencyFields)
isCurrencyField(fieldName, currencyFields) ==
    \/ \E i \in 1..Len(currencyFields) : currencyFields[i] = fieldName
    \/ \E i \in 1..Len(currencyFields) :
          \/ endsWith(fieldName, "_" \o currencyFields[i])
          \/ includes(fieldName, currencyFields[i] \o "_")

\* Result of a call that may allocate: the heap after it and the value
\* returned (Thrown(..) when an exception escapes the call).
Ret(h, v) == [h |-> h, v |-> v]

\* Allocation of a new cell: the heap after it; its address is Len(h) + 1.
Alloc(h, cell) == Append(h, cell)

\* A lookup that probes response.cart.currency before response.currency:
\* property C7 tells it from extractCurrencyInfo.
extractCurrencyInfo_CartFirst(h, resp) ==
    IF Truthy(Get(h, resp, "cart")) /\ Truthy(Get(h, Get(h, resp, "cart"), "currency")) THEN
        Ret(h, Get(h, Get(h, resp, "cart"), "currency"))
    ELSE IF Truthy(Get(h, resp, "currency")) THEN Ret(h, Get(h, resp, "currency"))
    ELSE Ret(h, Undefined)

\* extractCurrencyInfo(response)
extractCurrencyInfo(h, resp) ==
    LET requiredFields == <<"currency_code", "currency_symbol", "currency_minor_unit",
                            "currency_decimal_separator", "currency_thousand_separator">>
        copied == {requiredFields[i] : i \in 1..Len(requiredFields)}
                    \cup {"currency_prefix", "currency_suffix"}
    IN  IF ~Truthy(resp) THEN Ret(h, Undefined)
        ELSE IF Truthy(Get(h, resp, "currency")) THEN Ret(h, Get(h, resp, "currency"))
        ELSE IF Truthy(Get(h, resp, "cart"))
                  /\ Truthy(Get(h, Get(h, resp, "cart"), "currency")) THEN
            Ret(h, Get(h, Get(h, resp, "cart"), "currency"))
        ELSE IF Truthy(Get(h, resp, "data"))
                  /\ Truthy(Get(h, Get(h, resp, "data"), "currency")) THEN
            Ret(h, Get(h, Get(h, resp, "data"), "currency"))
        ELSE IF Truthy(Get(h, resp, "store_info"))
                  /\ Truthy(Get(h, Get(h, resp, "store_info"), "currency")) THEN
            Ret(h, Get(h, Get(h, resp, "store_info"), "currency"))
        \* `field in response` raises TypeError when response is a primitive
        ELSE IF ~IsRef(resp) THEN Ret(h, Thrown("TypeError"))
        ELSE IF \A i \in 1..Len(requiredFields) : HasKey(h, resp, requiredFields[i]) THEN
            Ret(Alloc(h, ObjCell([k \in copied |-> Get(h, resp, k)])), Ref(Len(h) + 1))
        ELSE Ret(h, Undefined)

\* The guard of lines 246-252: the value is neither a number nor a string
\* that parseFloat reads as a number.
NotNumeric(value) ==
    \/ (typeof(value) # "number" /\ typeof(value) # "string")
    \/ (typeof(value) = "string" /\ parseFloat(value.s).nan)

\* result[key] = value on the object at address a.
SetField(h, a, key, value) ==
    [h EXCEPT ![a].f = (key :> value) @@ h[a].f]

\* processObjectCurrency(obj, currencyInfo, currencyFields).  POC_Items is the
\* obj.map(..) of lines 230-235 from index i on and POC_ItemsNext its step
\* once item i is processed; POC_Fields is the loop of lines 242-272 over
\* keys[i..] on the copy at address a, POC_Field its body for one key and
\* POC_FieldsNext its step.  A RangeError raised by the formatter ends the
\* call.
RECURSIVE processObjectCurrency(_, _, _, _)
RECURSIVE POC_Items(_, _, _, _, _, _)
RECURSIVE POC_Fields(_, _, _, _, _, _)

POC_ItemsNext(r, items, i, acc, currencyInfo, currencyFields) ==
    IF IsThrown(r.v) THEN [h |-> r.h, items |-> acc, thrown |-> TRUE]
    ELSE POC_Items(r.h, items, i + 1, Append(acc, r.v), currencyInfo, currencyFields)

POC_Items(h, items, i, acc, currencyInfo, currencyFields) ==
    IF i > Len(items) THEN [h |-> h, items |-> acc, thrown |-> FALSE]
    ELSE POC_ItemsNext(IF typeof(items[i]) = "object"
                       THEN processObjectCurrency(h, items[i], currencyInfo, currencyFields)
                       ELSE Ret(h, items[i]),
                       items, i, acc, currencyInfo, currencyFields)

\* result[field] = formatCurrencyValue(value, currencyInfo), lines 262-263,
\* with s what the formatter returned or raised.
POC_Format(h, a, field, s) ==
    IF IsThrown(s) THEN Ret(h, s) ELSE Ret(SetField(h, a, field, s), Ref(a))

\* result[field] = processObjectCurrency(value, ..), line 270, with r what
\* the nested call returned or raised.
POC_Assign(r, a, field) ==
    IF IsThrown(r.v) THEN r ELSE Ret(SetField(r.h, a, field, r.v), Ref(a))

POC_Field(h, a, field, currencyInfo, currencyFields) ==
    LET value == h[a].f[field]
    IN  IF isCurrencyField(field, currencyFields) THEN
            IF NotNumeric(value) THEN Ret(h, Ref(a))
            ELSE IF includes(field, "formatted_") \/ startsWith(field, "_original_") THEN
                Ret(h, Ref(a))
            \* Always preserve original values (lines 259-260), then format
            ELSE POC_Format(SetField(h, a, "_original_" \o field, value), a, field,
                            formatCurrencyValue(SetField(h, a, "_original_" \o field, value),
                                                value, currencyInfo))
        ELSE IF typeof(value) = "object" /\ value # Null THEN
            POC_Assign(processObjectCurrency(h, value, currencyInfo, currencyFields), a, field)
        ELSE Ret(h, Ref(a))

POC_FieldsNext(r, a, keys, i, currencyInfo, currencyFields) ==
    IF IsThrown(r.v) THEN r
    ELSE POC_Fields(r.h, a, keys, i + 1, currencyInfo, currencyFields)

POC_Fields(h, a, keys, i, currencyInfo, currencyFields) ==
    IF i > Len(keys) THEN Ret(h, Ref(a))
    ELSE POC_FieldsNext(POC_Field(h, a, keys[i], currencyInfo, currencyFields),
                        a, keys, i, currencyInfo, currencyFields)

\* An array step that leaves null items out of the result
\* (obj.filter(Boolean).map(..)).
POC_Array_Compacts(r) ==
    IF r.thrown THEN Ret(r.h, Thrown("RangeError"))
    ELSE Ret(Alloc(r.h, ArrCell(SelectSeq(r.items, LAMBDA v : v # Null))), Ref(Len(r.h) + 1))

\* The array obj.map(..) returns, with r what POC_Items collected.
POC_Array(r) ==
    IF r.thrown THEN Ret(r.h, Thrown("RangeError"))
    ELSE Ret(Alloc(r.h, ArrCell(r.items)), Ref(Len(r.h) + 1))

\* A walker that writes into obj itself (const result = obj): property C4
\* tells it from processObjectCurrency.
processObjectCurrency_InPlace(h, obj, currencyInfo, currencyFields) ==
    IF ~Truthy(obj) \/ typeof(obj) # "object" \/ ~Truthy(currencyInfo) THEN Ret(h, obj)
    ELSE IF IsArray(h, obj) THEN
        POC_Array(POC_Items(h, h[obj.a].items, 1, <<>>, currencyInfo, currencyFields))
    ELSE POC_Fields(h, obj.a, SetToSeq(DOMAIN h[obj.a].f), 1, currencyInfo, currencyFields)

processObjectCurrency(h, obj, currencyInfo, currencyFields) ==
    IF ~Truthy(obj) \/ typeof(obj) # "object" \/ ~Truthy(currencyInfo) THEN Ret(h, obj)
    ELSE IF IsArray(h, obj) THEN
        POC_Array(POC_Items(h, h[obj.a].items, 1, <<>>, currencyInfo, currencyFields))
    ELSE \* const result = { ...obj } is the new cell at address Len(h) + 1
        POC_Fields(Alloc(h, h[obj.a]), Len(h) + 1, SetToSeq(DOMAIN h[obj.a].f), 1,
                   currencyInfo, currencyFields)

\* The function createCurrencyTransformer(enabled) returns, applied to a
\* response; `enabled` is whatever value the caller passed.
CCT_Process(e, resp) ==
    IF IsThrown(e.v) THEN e
    ELSE IF ~Truthy(e.v) THEN Ret(e.h, resp)
    ELSE processObjectCurrency(e.h, resp, e.v, COMMON_CURRENCY_FIELDS)

createCurrencyTransformer(h, enabled, resp) ==
    IF ~Truthy(enabled) \/ ~Truthy(resp) THEN Ret(h, resp)
    ELSE CCT_Process(extractCurrencyInfo(h, resp), resp)

\* The JSON value a reference denotes, as a tree (for comparing contents
\* irrespective of addresses).
RECURSIVE Deref(_, _)
Deref(h, v) ==
    IF ~IsRef(v) THEN v
    ELSE IF h[v.a].kind = "arr" THEN
        [t |-> "array", items |-> [i \in 1..Len(h[v.a].items) |-> Deref(h, h[v.a].items[i])]]
    ELSE [t |-> "record", f |-> [k \in DOMAIN h[v.a].f |-> Deref(h, h[v.a].f[k])]]

(***************************************************************************)
(* Dates of the host platform.  A Date is an instant in seconds since      *)
(* 1970-01-01T00:00:00Z, or Invalid Date.  `host` is the platform the SDK  *)
(* runs on: its time zone, and two points on which JavaScript engines      *)
(* differ: whether Date.parse rejects a day past the end of its month      *)
(* (strictDates) or rolls it into the next month, and whether              *)
(* Intl.DateTimeFormat with hour12: false renders midnight as 24           *)
(* (midnight24) or as 00.                                                  *)
(***************************************************************************)
InvalidDate == [valid |-> FALSE, t |-> 0]
DateAt(t) == [valid |-> TRUE, t |-> t]

\* UTC offsets, in hours, of the IANA zones of the model, as in force in
\* October 2023, the month the model's dates are drawn from.
TzOffsetHours ==
    ("UTC" :> 0) @@ ("America/New_York" :> (0 - 4)) @@ ("Europe/London" :> 1)
      @@ ("Asia/Tokyo" :> 9) @@ ("Asia/Dubai" :> 4)

IsTimeZone(tz) == tz \in DOMAIN TzOffsetHours

IsLeapYear(y) == (y % 4 = 0 /\ y % 100 # 0) \/ y % 400 = 0

DaysInMonth(y, m) ==
    IF m = 2 THEN (IF IsLeapYear(y) THEN 29 ELSE 28)
    ELSE IF m \in {4, 6, 9, 11} THEN 30 ELSE 31

\* Days from 1970-01-01 to the civil date y-m-d (d may run past the month).
DaysFromCivil(y, m, d) ==
    LET yy == IF m <= 2 THEN y - 1 ELSE y
        era == yy \div 400
        yoe == yy - era * 400
        mp == IF m > 2 THEN m - 3 ELSE m + 9
        doy == (153 * mp + 2) \div 5 + d - 1
        doe == yoe * 365 + yoe \div 4 - yoe \div 100 + doy
    IN  era * 146097 + doe - 719468

\* The civil date of a day count.
CivilFromDays(z) ==
    LET zz == z + 719468
        era == zz \div 146097
        doe == zz - era * 146097
        yoe == (doe - doe \div 1460 + doe \div 36524 - doe \div 146096) \div 365
        doy == doe - (365 * yoe + yoe \div 4 - yoe \div 100)
        mp == (5 * doy + 2) \div 153
        d == doy - (153 * mp + 2) \div 5 + 1
        m == IF mp < 10 THEN mp + 3 ELSE mp - 9
    IN  [y |-> (yoe + era * 400) + (IF m <= 2 THEN 1 ELSE 0), m |-> m, d |-> d]

AllDigits(s, i, j) == \A k \in i..j : IsDigit(s, k)

\* DEFAULT_DATE_PATTERN.test(s):
\* /^\d{4}-\d{2}-\d{2}(T|\s)\d{2}:\d{2}:\d{2}(Z|[\+\-]\d{2}:?\d{2})?$/
DEFAULT_DATE_PATTERN(s) ==
    /\ Len(s) >= 19
    /\ AllDigits(s, 1, 4) /\ Char(s, 5) = "-"
    /\ AllDigits(s, 6, 7) /\ Char(s, 8) = "-"
    /\ AllDigits(s, 9, 10) /\ Char(s, 11) \in {"T", " "}
    /\ AllDigits(s, 12, 13) /\ Char(s, 14) = ":"
    /\ AllDigits(s, 15, 16) /\ Char(s, 17) = ":"
    /\ AllDigits(s, 18, 19)
    /\ \/ Len(s) = 19
       \/ Len(s) = 20 /\ Char(s, 20) = "Z"
       \/ Len(s) = 24 /\ Char(s, 20) \in {"+", "-"} /\ AllDigits(s, 21, 24)
       \/ Len(s) = 25 /\ Char(s, 20) \in {"+", "-"} /\ AllDigits(s, 21, 22)
            /\ Char(s, 23) = ":" /\ AllDigits(s, 24, 25)

\* new Date(s) for a string of the shape above: the fields are read, range
\* checked, and taken as UTC (Z), as offset time, or as time of the host's
\* zone when no zone is written.  Any other string of the model's inputs is
\* no date: Invalid Date.
DateParse(hst, s) ==
    IF ~DEFAULT_DATE_PATTERN(s) THEN InvalidDate
    ELSE LET y == DigitsToInt(s, 1, 4)
             mo == DigitsToInt(s, 6, 7)
             d == DigitsToInt(s, 9, 10)
             hh == DigitsToInt(s, 12, 13)
             mi == DigitsToInt(s, 15, 16)
             ss == DigitsToInt(s, 18, 19)
             zh == IF Len(s) >= 24 THEN DigitsToInt(s, 21, 22) ELSE 0
             zm == IF Len(s) >= 24 THEN DigitsToInt(s, Len(s) - 1, Len(s)) ELSE 0
             zsign == IF Len(s) >= 24 /\ Char(s, 20) = "-" THEN 0 - 1 ELSE 1
             offset == IF Len(s) = 19 THEN TzOffsetHours[hst.tz] * 3600
                       ELSE zsign * (zh * 3600 + zm * 60)
             ok == /\ mo \in 1..12
                   /\ d \in 1..31
                   /\ hst.strictDates => d <= DaysInMonth(y, mo)
                   /\ hh <= 23 \/ (hh = 24 /\ mi = 0 /\ ss = 0)
                   /\ mi <= 59 /\ ss <= 59
                   /\ zh <= 23 /\ zm <= 59
         IN  IF ~ok THEN InvalidDate
             ELSE DateAt(DaysFromCivil(y, mo, d) * 86400 + hh * 3600 + mi * 60 + ss - offset)

Pad2(n) == ZeroPadLeft(IntToStr(n), 2)

\* Intl.DateTimeFormat('en-US', {timeZone: tz, year: 'numeric', month..second:
\* '2-digit', hour12: false}).formatToParts(date), as the record of its
\* non-literal parts.  Defined for a valid date and a known zone.
formatToParts(hst, date, tz) ==
    LET local == date.t + TzOffsetHours[tz] * 3600
        c == CivilFromDays(local \div 86400)
        sod == local % 86400
        hour == sod \div 3600
    IN  [year |-> ZeroPadLeft(IntToStr(c.y), 4), month |-> Pad2(c.m), day |-> Pad2(c.d),
         hour |-> IF hour = 0 /\ hst.midnight24 THEN "24" ELSE Pad2(hour),
         minute |-> Pad2((sod % 3600) \div 60), second |-> Pad2(sod % 60)]

IsoLocal(p) ==
    p.year \o "-" \o p.month \o "-" \o p.day \o "T" \o p.hour \o ":" \o p.minute \o ":" \o p.second

\* date.toISOString() of a valid date.
toISOString(date) ==
    IsoLocal(formatToParts([midnight24 |-> FALSE], date, "UTC")) \o ".000Z"

\* getBrowserTimezone()
getBrowserTimezone(hst) == hst.tz

\* formatDateTime(date, timezone) without options.  An unknown zone or an
\* invalid date makes Intl raise RangeError; the catch block then returns
\* date.toISOString(), which itself raises RangeError on an invalid date.
formatDateTime(hst, date, timezone) ==
    IF IsTimeZone(timezone) /\ date.valid THEN Str(IsoLocal(formatToParts(hst, date, timezone)))
    ELSE IF ~date.valid THEN Thrown("RangeError")
    ELSE Str(toISOString(date))

\* convertDateTimezone(dateStr, sourceTimezone, targetTimezone)
convertDateTimezone(hst, dateStr, sourceTimezone, targetTimezone) ==
    LET date == DateParse(hst, dateStr)
    IN  IF ~IsTimeZone(sourceTimezone) \/ ~date.valid THEN Str(dateStr)
        ELSE LET sourceDate == DateParse(hst, IsoLocal(formatToParts(hst, date, sourceTimezone)))
                 out == formatDateTime(hst, sourceDate, targetTimezone)
             IN  IF IsThrown(out) THEN Str(dateStr) ELSE out

\* isDateString(str, pattern) with the default pattern.
isDateString(hst, str) ==
    IF typeof(str) # "string" THEN FALSE
    ELSE IF DEFAULT_DATE_PATTERN(str.s) THEN DateParse(hst, str.s).valid
    ELSE FALSE

(***************************************************************************)
(* Timezone pipeline: utils/timezone.ts (src/unnamed/part_010).  A config  *)
(* is a function from option names to values; an absent key reads as      *)
(* undefined.                                                              *)
(***************************************************************************)
COMMON_DATE_FIELDS ==
    <<"date_created", "date_modified", "date_completed", "date_paid", "date_added",
      "created_at", "updated_at", "timestamp", "next_payment_date", "trial_end_date",
      "end_date", "expiry_date">>

\* The options argument of a normalizer: undefined, a boolean, an object
\* (a function from the keys the caller wrote to their values), or
\* something else.
NoOptions == [kind |-> "undefined"]
BoolOptions(b) == [kind |-> "boolean", b |-> b]
ObjOptions(o) == [kind |-> "object", o |-> o]
OtherOptions(v) == [kind |-> "other", v |-> v]

\* A timezone normalizer in which a boolean cascades to preserveOriginal, as
\* it does in the currency normalizer.
normalizeTimezoneConfig_Cascades(hst, options) ==
    LET defaultConfig ==
            ("enabled" :> FALSE) @@ ("storeTimezone" :> Str("UTC"))
              @@ ("targetTimezone" :> Str(getBrowserTimezone(hst)))
              @@ ("dateFields" :> COMMON_DATE_FIELDS) @@ ("preserveOriginal" :> FALSE)
    IN  IF options.kind = "boolean"
        THEN ("enabled" :> options.b) @@ ("preserveOriginal" :> options.b) @@ defaultConfig
        ELSE IF options.kind = "object" THEN options.o @@ defaultConfig
        ELSE defaultConfig

\* normalizeTimezoneConfig(options)
normalizeTimezoneConfig(hst, options) ==
    LET defaultConfig ==
            ("enabled" :> FALSE) @@ ("storeTimezone" :> Str("UTC"))
              @@ ("targetTimezone" :> Str(getBrowserTimezone(hst)))
              @@ ("dateFields" :> COMMON_DATE_FIELDS) @@ ("preserveOriginal" :> FALSE)
    IN  IF options.kind = "boolean" THEN ("enabled" :> options.b) @@ defaultConfig
        ELSE IF options.kind = "object" THEN options.o @@ defaultConfig
        ELSE defaultConfig

\* A function value, as a configuration carries it in dateTimeFormatter.
Function(name) == [t |-> "function", name |-> name]

\* config[key], or `dflt` when the key is absent.
Opt(config, key, dflt) == IF key \in DOMAIN config THEN config[key] ELSE dflt

\* A caller-supplied dateTimeFormatter(date, timezone): the one of
\* docs/timezone-handling.md renders the date in the zone; here it renders
\* the zone's wall clock followed by the zone.
dateTimeFormatter(hst, date, timezone) ==
    IF ~date.valid \/ ~IsTimeZone(timezone) THEN Str("Invalid Date")
    ELSE Str(IsoLocal(formatToParts(hst, date, timezone)) \o " (" \o timezone \o ")")

\* A caller-supplied datePattern: a RegExp object with the source of the
\* default pattern, with or without the g flag.  It is an object of the
\* heap; a global RegExp carries lastIndex from one test() to the next.
RegExpCell(global) ==
    [kind |-> "regexp", f |-> NoFields, items |-> <<>>, global |-> global, lastIndex |-> 0]

\* pattern.test(s): a global RegExp starts matching at lastIndex, where the
\* anchored pattern can only match when lastIndex is 0; a match sets
\* lastIndex to the end of the match, a failure resets it to 0.
RegExpTest(h, pattern, s) ==
    LET cell == h[pattern.a]
        hit == DEFAULT_DATE_PATTERN(s) /\ (cell.global => cell.lastIndex = 0)
    IN  Ret(IF cell.global
            THEN [h EXCEPT ![pattern.a].lastIndex = IF hit THEN Len(s) ELSE 0]
            ELSE h,
            hit)

\* isDateString(str, pattern) with `pattern` undefined (the default pattern
\* is used) or a RegExp of the heap: the heap after the call and its result.
isDateStringWith(h, hst, str, pattern) ==
    IF typeof(str) # "string" THEN Ret(h, FALSE)
    ELSE IF pattern = Undefined THEN Ret(h, isDateString(hst, str))
    ELSE LET t == RegExpTest(h, pattern, str.s)
         IN  Ret(t.h, t.v /\ DateParse(hst, str.s).valid)

\* detectDateStrings(obj, datePattern)
detectDateStrings(h, hst, obj) ==
    IF ~Truthy(obj) \/ typeof(obj) # "object" THEN <<>>
    ELSE SetToSeq({k \in Keys(h, obj) :
                      typeof(h[obj.a].f[k]) = "string" /\ isDateString(hst, h[obj.a].f[k])})

\* detectDateStrings(obj, datePattern) with a pattern as in isDateStringWith:
\* the heap after the call and the field names found.  DDS_Keys is the loop
\* of lines 128-132 over keys[i..].
RECURSIVE DDS_Keys(_, _, _, _, _, _, _)
DDS_Next(t, hst, obj, keys, i, acc, pattern) ==
    DDS_Keys(t.h, hst, obj, keys, i + 1, IF t.v THEN Append(acc, keys[i]) ELSE acc, pattern)

DDS_Keys(h, hst, obj, keys, i, acc, pattern) ==
    IF i > Len(keys) THEN [h |-> h, fields |-> acc]
    ELSE DDS_Next(isDateStringWith(h, hst, h[obj.a].f[keys[i]], pattern),
                  hst, obj, keys, i, acc, pattern)

detectDateStringsWith(h, hst, obj, pattern) ==
    IF pattern = Undefined THEN [h |-> h, fields |-> detectDateStrings(h, hst, obj)]
    ELSE IF ~Truthy(obj) \/ typeof(obj) # "object" THEN [h |-> h, fields |-> <<>>]
    ELSE DDS_Keys(h, hst, obj, SetToSeq(Keys(h, obj)), 1, <<>>, pattern)

\* processObjectDates(obj, config, storeTimezone).  POD_Items is the
\* obj.map(..) of lines 264-269 and POD_ItemsNext its step; POD_DateFields is
\* the loop of lines 284-312 over dateFields[i..] on the copy at address a and
\* POD_Field its body for one field; POD_Nested is the loop of lines 315-319
\* over keys[i..].
RECURSIVE processObjectDates(_, _, _, _, _)
RECURSIVE POD_Items(_, _, _, _, _, _, _)
RECURSIVE POD_DateFields(_, _, _, _, _, _, _, _, _)
RECURSIVE POD_Nested(_, _, _, _, _, _, _)

POD_ItemsNext(r, hst, items, i, acc, config, storeTimezone) ==
    POD_Items(r.h, hst, items, i + 1, Append(acc, r.v), config, storeTimezone)

POD_Items(h, hst, items, i, acc, config, storeTimezone) ==
    IF i > Len(items) THEN [h |-> h, items |-> acc]
    ELSE POD_ItemsNext(IF typeof(items[i]) = "object"
                       THEN processObjectDates(h, hst, items[i], config, storeTimezone)
                       ELSE Ret(h, items[i]),
                       hst, items, i, acc, config, storeTimezone)

\* Lines 289-306 for a field holding the date string `value`, with
\* convertedDate what convertDateTimezone returned for it.
POD_Convert(h, hst, a, field, value, convertedDate, config, targetTimezone) ==
    SetField(IF Opt(config, "preserveOriginal", FALSE)
             THEN SetField(h, a, "_original_" \o field, value)
             ELSE h,
             a, field,
             IF Truthy(Opt(config, "dateTimeFormatter", Undefined)) /\ convertedDate # value
             THEN dateTimeFormatter(hst, DateParse(hst, convertedDate.s), targetTimezone)
             ELSE convertedDate)

\* result[key] = processObjectDates(result[key], ..), lines 310 and 317, with
\* r what the nested call returned.
POD_Assign(r, a, key) == SetField(r.h, a, key, r.v)

\* Lines 287-307 with t what isDateString(result[field], config.datePattern)
\* returned.
POD_Tested(t, hst, a, field, value, config, sourceTimezone, targetTimezone) ==
    IF t.v THEN
        POD_Convert(t.h, hst, a, field, value,
                    convertDateTimezone(hst, value.s, sourceTimezone, targetTimezone),
                    config, targetTimezone)
    ELSE t.h

POD_Field(h, hst, a, field, config, storeTimezone, sourceTimezone, targetTimezone) ==
    LET present == field \in DOMAIN h[a].f
        value == h[a].f[field]
    IN  IF present /\ typeof(value) = "string" THEN
            POD_Tested(isDateStringWith(h, hst, value, Opt(config, "datePattern", Undefined)),
                       hst, a, field, value, config, sourceTimezone, targetTimezone)
        ELSE IF present /\ typeof(value) = "object" THEN
            POD_Assign(processObjectDates(h, hst, value, config, storeTimezone), a, field)
        ELSE h

POD_DateFields(h, hst, a, dateFields, i, config, storeTimezone, sourceTimezone, targetTimezone) ==
    IF i > Len(dateFields) THEN h
    ELSE POD_DateFields(POD_Field(h, hst, a, dateFields[i], config, storeTimezone,
                                  sourceTimezone, targetTimezone),
                        hst, a, dateFields, i + 1, config, storeTimezone,
                        sourceTimezone, targetTimezone)

POD_Nested(h, hst, a, keys, i, config, storeTimezone) ==
    IF i > Len(keys) THEN Ret(h, Ref(a))
    ELSE POD_Nested(IF typeof(h[a].f[keys[i]]) = "object" /\ h[a].f[keys[i]] # Null
                    THEN POD_Assign(processObjectDates(h, hst, h[a].f[keys[i]], config,
                                                       storeTimezone), a, keys[i])
                    ELSE h,
                    hst, a, keys, i + 1, config, storeTimezone)

\* The array obj.map(..) returns, with r what POD_Items collected.
POD_Array(r) == Ret(Alloc(r.h, ArrCell(r.items)), Ref(Len(r.h) + 1))

\* Lines 315-321 on the copy at address a, once the date fields are done.
POD_Rest(h, hst, a, config, storeTimezone) ==
    POD_Nested(h, hst, a, SetToSeq(DOMAIN h[a].f), 1, config, storeTimezone)

\* Lines 272-321 with d the date fields to process (and the heap after
\* detecting them); const result = { ...obj } is the new cell at address
\* Len(d.h) + 1.
POD_Object(d, hst, obj, config, storeTimezone, sourceTimezone, targetTimezone) ==
    POD_Rest(POD_DateFields(Alloc(d.h, d.h[obj.a]), hst, Len(d.h) + 1, d.fields,
                            1, config, storeTimezone, sourceTimezone, targetTimezone),
             hst, Len(d.h) + 1, config, storeTimezone)

\* A walker without the early exit for equal zones: it copies and converts
\* whatever the zones are.
processObjectDates_AlwaysConverts(h, hst, obj, config, storeTimezone) ==
    LET configured == Opt(config, "storeTimezone", Undefined)
        sourceTimezone == IF Truthy(storeTimezone) THEN storeTimezone
                          ELSE IF Truthy(configured) THEN configured ELSE Str("UTC")
        targetTimezone == IF Truthy(Opt(config, "targetTimezone", Undefined))
                          THEN config["targetTimezone"]
                          ELSE Str(getBrowserTimezone(hst))
        listed == Opt(config, "dateFields", <<>>)
    IN  IF ~Truthy(obj) \/ typeof(obj) # "object" THEN Ret(h, obj)
        ELSE IF IsArray(h, obj) THEN
            POD_Array(POD_Items(h, hst, h[obj.a].items, 1, <<>>, config, storeTimezone))
        ELSE
            POD_Rest(POD_DateFields(Alloc(h, h[obj.a]), hst, Len(h) + 1,
                                    IF Len(listed) = 0 THEN detectDateStrings(h, hst, obj)
                                    ELSE listed,
                                    1, config, storeTimezone,
                                    sourceTimezone.s, targetTimezone.s),
                     hst, Len(h) + 1, config, storeTimezone)

processObjectDates(h, hst, obj, config, storeTimezone) ==
    LET configured == Opt(config, "storeTimezone", Undefined)
        sourceTimezone == IF Truthy(storeTimezone) THEN storeTimezone
                          ELSE IF Truthy(configured) THEN configured ELSE Str("UTC")
        targetTimezone == IF Truthy(Opt(config, "targetTimezone", Undefined))
                          THEN config["targetTimezone"]
                          ELSE Str(getBrowserTimezone(hst))
        listed == Opt(config, "dateFields", <<>>)
    IN  IF ~Truthy(obj) \/ typeof(obj) # "object" THEN Ret(h, obj)
        ELSE IF sourceTimezone = targetTimezone THEN Ret(h, obj)
        ELSE IF IsArray(h, obj) THEN
            POD_Array(POD_Items(h, hst, h[obj.a].items, 1, <<>>, config, storeTimezone))
        ELSE POD_Object(IF Len(listed) = 0
                        THEN detectDateStringsWith(h, hst, obj,
                                                   Opt(config, "datePattern", Undefined))
                        ELSE [h |-> h, fields |-> listed],
                        hst, obj, config, storeTimezone, sourceTimezone.s, targetTimezone.s)

\* A transformer that probes response.meta.timezone before
\* response.store_info.timezone.
createTimezoneTransformer_MetaFirst(h, hst, config, resp) ==
    IF ~Opt(config, "enabled", FALSE) \/ ~Truthy(resp) THEN Ret(h, resp)
    ELSE LET info == Get(h, resp, "store_info")
             meta == Get(h, resp, "meta")
             storeTimezone ==
                 IF Truthy(meta) /\ Truthy(Get(h, meta, "timezone"))
                     THEN Get(h, meta, "timezone")
                 ELSE IF Truthy(info) /\ Truthy(Get(h, info, "timezone"))
                     THEN Get(h, info, "timezone")
                 ELSE Opt(config, "storeTimezone", Undefined)
         IN  processObjectDates(h, hst, resp, config, storeTimezone)

\* The function createTimezoneTransformer(config) returns, applied to a
\* response.
createTimezoneTransformer(h, hst, config, resp) ==
    IF ~Opt(config, "enabled", FALSE) \/ ~Truthy(resp) THEN Ret(h, resp)
    ELSE LET info == Get(h, resp, "store_info")
             meta == Get(h, resp, "meta")
             storeTimezone ==
                 IF Truthy(info) /\ Truthy(Get(h, info, "timezone"))
                     THEN Get(h, info, "timezone")
                 ELSE IF Truthy(meta) /\ Truthy(Get(h, meta, "timezone"))
                     THEN Get(h, meta, "timezone")
                 ELSE Opt(config, "storeTimezone", Undefined)
         IN  processObjectDates(h, hst, resp, config, storeTimezone)

\* A currency-config normalizer that forces autoFormat and preserveOriginal
\* to true whenever formatting is enabled, whatever the caller wrote:
\* property C6 tells it from normalizeCurrencyConfig.
normalizeCurrencyConfig_Forced(options) ==
    LET defaultConfig ==
            ("enabled" :> FALSE) @@ ("autoFormat" :> FALSE)
              @@ ("preserveOriginal" :> FALSE) @@ ("currencyFields" :> COMMON_CURRENCY_FIELDS)
    IN  IF options.kind = "boolean" THEN
            ("enabled" :> options.b) @@ ("autoFormat" :> options.b)
              @@ ("preserveOriginal" :> options.b) @@ defaultConfig
        ELSE IF options.kind = "object" THEN
            IF (options.o @@ defaultConfig)["enabled"] = TRUE THEN
                ("autoFormat" :> TRUE) @@ ("preserveOriginal" :> TRUE)
                  @@ options.o @@ defaultConfig
            ELSE options.o @@ defaultConfig
        ELSE defaultConfig

(***************************************************************************)
(* Currency configuration.  normalizeCurrencyConfig is called by the       *)
(* client (src/unnamed/part_011, line 64) and by the tests; its body is    *)
(* not among the source files, so it follows the documented contract:      *)
(* defaults all false; a boolean cascades to enabled, autoFormat and       *)
(* preserveOriginal; an object is merged onto the defaults and, when it    *)
(* enables formatting, autoFormat and preserveOriginal default to true     *)
(* unless the object has the key.                                          *)
(***************************************************************************)
normalizeCurrencyConfig(options) ==
    LET defaultConfig ==
            ("enabled" :> FALSE) @@ ("autoFormat" :> FALSE)
              @@ ("preserveOriginal" :> FALSE) @@ ("currencyFields" :> COMMON_CURRENCY_FIELDS)
        merged == options.o @@ defaultConfig
        implied(key) == IF key \in DOMAIN options.o THEN options.o[key] ELSE TRUE
    IN  IF options.kind = "boolean" THEN
            ("enabled" :> options.b) @@ ("autoFormat" :> options.b)
              @@ ("preserveOriginal" :> options.b) @@ defaultConfig
        ELSE IF options.kind = "object" THEN
            IF merged["enabled"] = TRUE THEN
                ("autoFormat" :> implied("autoFormat"))
                  @@ ("preserveOriginal" :> implied("preserveOriginal")) @@ merged
            ELSE merged
        ELSE defaultConfig

(***************************************************************************)
(* Inputs: the hosts, the caller options and the API responses the model   *)
(* is run on.                                                              *)
(***************************************************************************)
\* Longest array of line items in a generated response.
MaxItems == 2

Hosts ==
    [tz : {"UTC", "America/New_York"},
     strictDates : BOOLEAN, midnight24 : BOOLEAN]

\* Partial currency option objects: each of the three switches absent,
\* true or false.
CurrencySwitches == {"enabled", "autoFormat", "preserveOriginal"}
CurrencyOptions ==
    {NoOptions, BoolOptions(TRUE), BoolOptions(FALSE)}
      \cup {ObjOptions(o) : o \in UNION {[K -> BOOLEAN] : K \in SUBSET CurrencySwitches}}

TimezoneOptions ==
    {NoOptions, BoolOptions(TRUE), BoolOptions(FALSE),
     OtherOptions(Str("Europe/London")), OtherOptions(Null),
     ObjOptions(("enabled" :> TRUE) @@ ("storeTimezone" :> Str("Europe/London"))),
     ObjOptions(("enabled" :> TRUE) @@ ("storeTimezone" :> Str("UTC"))
                  @@ ("targetTimezone" :> Str("America/New_York"))
                  @@ ("preserveOriginal" :> TRUE)),
     ObjOptions(("enabled" :> TRUE) @@ ("storeTimezone" :> Str("America/New_York"))
                  @@ ("targetTimezone" :> Str("Europe/London"))
                  @@ ("dateFields" :> <<>>)),
     ObjOptions(("enabled" :> TRUE) @@ ("storeTimezone" :> Str("America/New_York"))
                  @@ ("targetTimezone" :> Str("Asia/Dubai"))
                  @@ ("dateTimeFormatter" :> Function("dateTimeFormatter"))),
     ObjOptions(("enabled" :> TRUE) @@ ("storeTimezone" :> Str("Asia/Tokyo"))
                  @@ ("targetTimezone" :> Str("Europe/London"))
                  @@ ("dateFields" :> <<>>) @@ ("preserveOriginal" :> TRUE))}

\* Partial configurations handed to updateCurrencyConfig.
CurrencyUpdates == {("enabled" :> TRUE), ("enabled" :> FALSE)}

\* CurrencyInfo objects as the API sends them.
CurrencyInfoCell(code, symbol, unit, affixes) ==
    ObjCell(affixes @@ ("currency_code" :> Str(code)) @@ ("currency_symbol" :> Str(symbol))
              @@ ("currency_minor_unit" :> Num(unit))
              @@ ("currency_decimal_separator" :> Str("."))
              @@ ("currency_thousand_separator" :> Str(",")))

Affixes(prefix, suffix) == ("currency_prefix" :> Str(prefix)) @@ ("currency_suffix" :> Str(suffix))

USD == CurrencyInfoCell("USD", "$", 2, Affixes("$", ""))
EUR == CurrencyInfoCell("EUR", "€", 2, Affixes("", "€"))
USDBoth == CurrencyInfoCell("USD", "$", 2, Affixes("$ ", " USD"))
GBPBare == CurrencyInfoCell("GBP", "£", 2, NoFields)
JPY == CurrencyInfoCell("JPY", "¥", 0, Affixes("¥", ""))

CurrencyInfos == {USD, EUR, USDBoth, GBPBare, JPY}

\* Values found under currency-named keys.
Amounts == {Num(1000), Str("2000"), Str("Not available")}

\* A response: a heap and the value the HTTP layer hands over.
Input(h, v) == [h |-> h, v |-> v]

\* { name, price, subtotal, currency }
FlatProduct(amount, info) ==
    Input(<<ObjCell(("name" :> Str("Product")) @@ ("price" :> amount)
                      @@ ("subtotal" :> Num(2000)) @@ ("currency" :> Ref(2))),
            info>>, Ref(1))

\* { name, totals: { total, tax }, currency }
NestedOrder(amount, info) ==
    Input(<<ObjCell(("name" :> Str("Order")) @@ ("totals" :> Ref(3)) @@ ("currency" :> Ref(2))),
            info,
            ObjCell(("total" :> amount) @@ ("tax" :> Num(500)))>>, Ref(1))

\* { products: [ {name, price} x n, 7, null ], currency }
ProductList(amount, info, n) ==
    Input(<<ObjCell(("products" :> Ref(3)) @@ ("currency" :> Ref(2))),
            info,
            ArrCell([i \in 1..n |-> Ref(3 + i)] \o <<Num(7), Null>>)>>
            \o [i \in 1..n |-> ObjCell(("name" :> Str("Product")) @@ ("price" :> amount))],
          Ref(1))

\* { price: 'Not available', formatted_price, _original_price, total, currency }
AlreadyFormatted(amount, info) ==
    Input(<<ObjCell(("price" :> Str("Not available")) @@ ("formatted_price" :> Str("$10.00"))
                      @@ ("_original_price" :> Num(1000)) @@ ("total" :> amount)
                      @@ ("currency" :> Ref(2))),
            info>>, Ref(1))

\* { formatted_price, _original_price, formatted_totals: { total }, currency }:
\* numbers and an object under keys marked as already processed.
MarkedKeys(amount, info) ==
    Input(<<ObjCell(("formatted_price" :> amount) @@ ("_original_price" :> amount)
                      @@ ("formatted_totals" :> Ref(3)) @@ ("currency" :> Ref(2))),
            info,
            ObjCell(("total" :> amount))>>, Ref(1))

\* { price_range: { min_price }, tax_lines: [ { tax: 500 } ], total, currency }:
\* an object and an array under keys that read as currency fields.
RangedProduct(amount, info) ==
    Input(<<ObjCell(("price_range" :> Ref(3)) @@ ("tax_lines" :> Ref(4))
                      @@ ("total" :> amount) @@ ("currency" :> Ref(2))),
            info,
            ObjCell(("min_price" :> amount)),
            ArrCell(<<Ref(5)>>),
            ObjCell(("tax" :> Num(500)))>>, Ref(1))

\* { total, currency: 'USD' }: the currency named by its code alone.
CodeOnly(amount) ==
    Input(<<ObjCell(("total" :> amount) @@ ("currency" :> Str("USD")))>>, Ref(1))

\* Responses that carry their currency info elsewhere, twice, or not at all.
Placements(amount) ==
    {Input(<<ObjCell(("cart" :> Ref(2)) @@ ("currency" :> Ref(3))),
             ObjCell(("currency" :> Ref(4)) @@ ("total" :> amount)), USD, EUR>>, Ref(1)),
     Input(<<ObjCell(("cart" :> Ref(2)) @@ ("currency" :> Null)),
             ObjCell(("currency" :> Ref(3)) @@ ("total" :> amount)), EUR>>, Ref(1)),
     Input(<<ObjCell(("data" :> Ref(2)) @@ ("store_info" :> Ref(3))),
             ObjCell(("currency" :> Ref(4)) @@ ("total" :> amount)),
             ObjCell(("currency" :> Ref(5))), USD, JPY>>, Ref(1)),
     Input(<<ObjCell(("store_info" :> Ref(2)) @@ ("total" :> amount)),
             ObjCell(("currency" :> Ref(3))), JPY>>, Ref(1)),
     Input(<<ObjCell(("total" :> amount) @@ USD.f)>>, Ref(1)),
     Input(<<ObjCell(("total" :> amount) @@ GBPBare.f)>>, Ref(1)),
     Input(<<ObjCell(("total" :> amount) @@ [k \in DOMAIN USD.f \ {"currency_code"} |-> USD.f[k]])>>,
           Ref(1)),
     Input(<<ObjCell(("products" :> Ref(2))), ArrCell(<<Ref(3)>>),
             ObjCell(("price" :> amount))>>, Ref(1)),
     Input(<<ArrCell(<<Ref(2)>>), ObjCell(("price" :> amount) @@ ("currency" :> Ref(3))), USD>>,
           Ref(1))}

\* JSON responses that are no object.
Scalars ==
    {Input(<<>>, v) : v \in {Str("ok"), Str(""), Num(5), Num(0), Bool(TRUE), Bool(FALSE), Null}}

\* Date strings, well formed and not.
DateStrings ==
    {"2023-10-15T12:00:00", "2023-10-15T12:00:00Z", "2023-10-15T14:30:00+00:00",
     "2023-10-15T14:30:00+0530", "2023-10-15 14:30:00", "2023-10-15T23:30:00",
     "2023-10-15T00:30:00Z", "2023-10-15",
     "10/15/2023", "not a date", "2023-02-30T10:00:00Z", "2023-02-29T10:00:00",
     "2024-02-29T10:00:00Z", "2023-04-31T08:00:00+01:00", "2023-13-01T10:00:00Z",
     "2023-10-32T10:00:00Z", "2023-10-15T25:00:00Z", "2023-10-15T12:60:00Z",
     "2023-10-15T12:00:61", "2023-10-15T12:00:00+01:75"}

OrderDates == {"2023-10-15T12:00:00Z", "2023-10-15T12:00:00", "2023-02-30T10:00:00Z", "not a date"}

\* { id, name, date_created, created, items: [ { id, date_added } ] }, with the
\* store's zone under store_info or meta, or without it.
Orders(d) ==
    LET root(extra) == ObjCell(extra @@ ("id" :> Num(1)) @@ ("name" :> Str("Test Order"))
                                 @@ ("date_created" :> Str(d)) @@ ("created" :> Str(d))
                                 @@ ("total" :> Num(1000)) @@ ("items" :> Ref(2)))
        items == ArrCell(<<Ref(3)>>)
        item == ObjCell(("id" :> Num(101)) @@ ("date_added" :> Str("2023-10-15T11:30:00Z")))
        zone == ObjCell(("timezone" :> Str("America/New_York")) @@ ("currency" :> Ref(5)))
    IN  {Input(<<root(NoFields), items, item>>, Ref(1)),
         Input(<<root(("store_info" :> Ref(4))), items, item, zone, USD>>, Ref(1)),
         Input(<<root(("meta" :> Ref(4))), items, item, zone, USD>>, Ref(1))}

\* { date_created, store_info: { timezone }, meta: { timezone },
\* items: [ { date_added } ] }: a response naming the store's zone twice.
ZonedOrder ==
    Input(<<ObjCell(("date_created" :> Str("2023-10-15T12:00:00Z"))
                      @@ ("store_info" :> Ref(2)) @@ ("meta" :> Ref(3)) @@ ("items" :> Ref(4))),
            ObjCell(("timezone" :> Str("Europe/London"))),
            ObjCell(("timezone" :> Str("Asia/Tokyo"))),
            ArrCell(<<Ref(5)>>),
            ObjCell(("date_added" :> Str("2023-10-15T11:30:00Z")))>>, Ref(1))

\* { id, timestamp: { created_at, note } }: an object under a key that is
\* itself a common date field name.
Tracked ==
    Input(<<ObjCell(("id" :> Num(7)) @@ ("timestamp" :> Ref(2))),
            ObjCell(("created_at" :> Str("2023-10-15T12:00:00Z"))
                      @@ ("note" :> Str("2023-10-15")))>>, Ref(1))

Responses ==
    UNION {{FlatProduct(x, c), NestedOrder(x, c)} : x \in Amounts, c \in CurrencyInfos}
      \cup {AlreadyFormatted(Num(1000), c) : c \in CurrencyInfos}
      \cup {ProductList(Num(1000), c, n) : c \in {USD, EUR}, n \in 0..MaxItems}
      \cup Placements(Num(1000))
      \cup Scalars
      \cup UNION {Orders(d) : d \in OrderDates}
      \cup {Tracked, MarkedKeys(Num(1000), USD), RangedProduct(Num(1000), USD), ZonedOrder,
            CodeOnly(Num(1000))}

\* Arguments of direct calls of the exported functions.
FormatValues ==
    {Num(4599), Str("4599"), Num(1000), Num(0), Num(5), Num(0 - 4599), Num(123456789),
     Dec(4299, 2), Str("99.50"), Str("10.00€"), Str("$45.99"), Str("not a number"), Str("")}

BHD == CurrencyInfoCell("BHD", "BD", 3, Affixes("", " BD"))

\* USD with another minor unit, or (unit undefined) with none.
USDWithUnit(unit) ==
    ObjCell(IF unit = Undefined
            THEN [k \in DOMAIN USD.f \ {"currency_minor_unit"} |-> USD.f[k]]
            ELSE ("currency_minor_unit" :> unit) @@ USD.f)

LooseCurrencyInfos == {USDWithUnit(u) : u \in {Num(0 - 1), Num(21), Num(101), Undefined}}

FieldNames ==
    {"price", "total", "line_total", "shipping_total", "tax_amount", "line_subtotal_tax",
     "total_tax", "totals", "subtotal", "pricelist", "name", "description", "quantity",
     "formatted_price", "_original_price", "tax", "_", ""}

KnownFields ==
    {<<"price", "total">>, <<"total", "tax">>, <<"total">>, <<"amount">>, <<>>,
     COMMON_CURRENCY_FIELDS}

DateCandidates ==
    {Str(d) : d \in DateStrings} \cup {Num(20231015), Null, Undefined, Bool(TRUE), Ref(1)}

ConvertDates ==
    {"2023-10-15T12:00:00", "2023-10-15T12:00:00Z", "2023-10-15T23:30:00",
     "2023-10-15T03:00:00", "not a date"}

Zones == DOMAIN TzOffsetHours \cup {"Invalid/Timezone"}

(***************************************************************************)
(* The state machine.  heap and response are the decoded response in the   *)
(* caller's hands, currencyConfig and timezoneConfig the normalized        *)
(* configurations, host the platform, and last the record of the latest    *)
(* call: its arguments, the heap it started from and what it returned.     *)
(***************************************************************************)
Init ==
    /\ host \in Hosts
    /\ heap = <<>>
    /\ response = Undefined
    /\ currencyConfig = normalizeCurrencyConfig(NoOptions)
    /\ timezoneConfig = normalizeTimezoneConfig(host, NoOptions)
    /\ last = [op |-> "new"]

\* this.currencyConfig = normalizeCurrencyConfig(config.currency)
ConfigureCurrency ==
    \E options \in CurrencyOptions :
        /\ last.op = "new"
        /\ currencyConfig' = normalizeCurrencyConfig(options)
        /\ last' = [op |-> "normalizeCurrencyConfig", options |-> options]
        /\ UNCHANGED <<heap, response, timezoneConfig, host>>

\* this.timezoneConfig = normalizeTimezoneConfig(config.timezoneConversion)
ConfigureTimezone ==
    \E options \in TimezoneOptions :
        /\ last.op = "new"
        /\ timezoneConfig' = normalizeTimezoneConfig(host, options)
        /\ last' = [op |-> "normalizeTimezoneConfig", options |-> options]
        /\ UNCHANGED <<heap, response, currencyConfig, host>>

\* The HTTP layer hands over a decoded response.
Receive ==
    \E r \in Responses :
        /\ last.op \in {"new", "normalizeCurrencyConfig", "normalizeTimezoneConfig"}
        /\ heap' = r.h
        /\ response' = r.v
        /\ last' = [op |-> "receive"]
        /\ UNCHANGED <<currencyConfig, timezoneConfig, host>>

\* formatCurrencyValue(value, currency)
FormatCurrencyValue ==
    \E value \in FormatValues, currency \in CurrencyInfos \cup {BHD} :
        /\ last.op = "new"
        /\ last' = [op |-> "formatCurrencyValue", value |-> value, currency |-> currency.f,
                    ret |-> formatCurrencyValue(<<currency>>, value, Ref(1))]
        /\ UNCHANGED <<heap, response, currencyConfig, timezoneConfig, host>>

\* formatCurrencyValue(value, currency) with a CurrencyInfo as an untyped
\* response may carry it: the minor unit out of range or missing.
FormatCurrencyValueLoose ==
    \E value \in FormatValues, currency \in LooseCurrencyInfos :
        /\ last.op = "new"
        /\ last' = [op |-> "formatCurrencyValue loose", value |-> value,
                    currency |-> currency.f,
                    ret |-> formatCurrencyValue(<<currency>>, value, Ref(1))]
        /\ UNCHANGED <<heap, response, currencyConfig, timezoneConfig, host>>

\* isCurrencyField(fieldName, currencyFields)
IsCurrencyField ==
    \E fieldName \in FieldNames, currencyFields \in KnownFields :
        /\ last.op = "new"
        /\ last' = [op |-> "isCurrencyField", fieldName |-> fieldName,
                    currencyFields |-> currencyFields,
                    ret |-> isCurrencyField(fieldName, currencyFields)]
        /\ UNCHANGED <<heap, response, currencyConfig, timezoneConfig, host>>

\* isDateString(str)
IsDateString ==
    \E str \in DateCandidates :
        /\ last.op = "new"
        /\ last' = [op |-> "isDateString", str |-> str, ret |-> isDateString(host, str)]
        /\ UNCHANGED <<heap, response, currencyConfig, timezoneConfig, host>>

\* formatDateTime(new Date(dateStr), timezone)
FormatDateTime ==
    \E dateStr \in ConvertDates, timezone \in Zones :
        /\ last.op = "new"
        /\ last' = [op |-> "formatDateTime", date |-> DateParse(host, dateStr),
                    timezone |-> timezone,
                    ret |-> formatDateTime(host, DateParse(host, dateStr), timezone)]
        /\ UNCHANGED <<heap, response, currencyConfig, timezoneConfig, host>>

\* convertDateTimezone(dateStr, sourceTimezone, targetTimezone)
ConvertDateTimezone ==
    \E dateStr \in ConvertDates, sourceTimezone \in Zones, targetTimezone \in Zones :
        /\ last.op = "new"
        /\ last' = [op |-> "convertDateTimezone", dateStr |-> dateStr,
                    sourceTimezone |-> sourceTimezone, targetTimezone |-> targetTimezone,
                    ret |-> convertDateTimezone(host, dateStr, sourceTimezone, targetTimezone)]
        /\ UNCHANGED <<heap, response, currencyConfig, timezoneConfig, host>>

\* convertDateTimezone(converted, targetTimezone, sourceTimezone): what the
\* previous call returned is converted back.
ConvertDateTimezoneBack ==
    /\ last.op = "convertDateTimezone"
    /\ last' = [op |-> "convertDateTimezone back", dateStr |-> last.dateStr,
                sourceTimezone |-> last.sourceTimezone,
                targetTimezone |-> last.targetTimezone, converted |-> last.ret,
                ret |-> convertDateTimezone(host, last.ret.s, last.targetTimezone,
                                            last.sourceTimezone)]
    /\ UNCHANGED <<heap, response, currencyConfig, timezoneConfig, host>>

\* extractCurrencyInfo(response)
ExtractCurrencyInfo ==
    LET e == extractCurrencyInfo(heap, response)
    IN  /\ last.op = "receive"
        /\ heap' = e.h
        /\ last' = [op |-> "extractCurrencyInfo", before |-> heap, arg |-> response,
                    ret |-> e.v]
        /\ UNCHANGED <<response, currencyConfig, timezoneConfig, host>>

\* processObjectCurrency(response, extractCurrencyInfo(response), currencyFields)
ProcessObjectCurrency ==
    LET e == extractCurrencyInfo(heap, response)
        r == processObjectCurrency(e.h, response, e.v, currencyConfig["currencyFields"])
    IN  /\ last.op = "receive"
        /\ ~IsThrown(e.v)
        /\ heap' = r.h
        /\ last' = [op |-> "processObjectCurrency", before |-> e.h, arg |-> response,
                    currencyInfo |-> e.v, ret |-> r.v]
        /\ UNCHANGED <<response, currencyConfig, timezoneConfig, host>>

\* processObjectCurrency applied to what processObjectCurrency returned.
ProcessObjectCurrencyAgain ==
    LET r == processObjectCurrency(heap, last.ret, last.currencyInfo,
                                   currencyConfig["currencyFields"])
    IN  /\ last.op = "processObjectCurrency"
        /\ ~IsThrown(last.ret)
        /\ heap' = r.h
        /\ last' = [op |-> "processObjectCurrency again", before |-> heap, arg |-> last.ret,
                    currencyInfo |-> last.currencyInfo, ret |-> r.v]
        /\ UNCHANGED <<response, currencyConfig, timezoneConfig, host>>

\* createCurrencyTransformer(enabled)(endpoint, response)
CurrencyTransformer ==
    LET r == createCurrencyTransformer(heap, Bool(currencyConfig["enabled"]), response)
    IN  /\ last.op = "receive"
        /\ heap' = r.h
        /\ last' = [op |-> "createCurrencyTransformer", before |-> heap, arg |-> response,
                    ret |-> r.v]
        /\ UNCHANGED <<response, currencyConfig, timezoneConfig, host>>

\* A configuration object handed over where a value is expected: an object,
\* of which only the truthiness is read.
ConfigObject(config) == [t |-> "object", a |-> 0, config |-> config]

\* createCurrencyTransformer(config)(endpoint, response): the whole
\* configuration is passed as the `enabled` argument.
CurrencyTransformerOfConfig ==
    LET r == createCurrencyTransformer(heap, ConfigObject(currencyConfig), response)
    IN  /\ last.op = "receive"
        /\ heap' = r.h
        /\ last' = [op |-> "createCurrencyTransformer(config)", before |-> heap,
                    arg |-> response, ret |-> r.v]
        /\ UNCHANGED <<response, currencyConfig, timezoneConfig, host>>

\* processObjectDates(response, config)
ProcessObjectDates ==
    LET r == processObjectDates(heap, host, response, timezoneConfig, Undefined)
    IN  /\ last.op = "receive"
        /\ heap' = r.h
        /\ last' = [op |-> "processObjectDates", before |-> heap, arg |-> response,
                    ret |-> r.v]
        /\ UNCHANGED <<response, currencyConfig, timezoneConfig, host>>

\* processObjectDates applied to what processObjectDates returned, with the
\* same configuration.
ProcessObjectDatesAgain ==
    LET r == processObjectDates(heap, host, last.ret, timezoneConfig, Undefined)
    IN  /\ last.op = "processObjectDates"
        /\ heap' = r.h
        /\ last' = [op |-> "processObjectDates again", before |-> heap, arg |-> last.ret,
                    first |-> [h |-> last.before, v |-> last.arg], ret |-> r.v]
        /\ UNCHANGED <<response, currencyConfig, timezoneConfig, host>>

\* createTimezoneTransformer(config)(endpoint, response)
TimezoneTransformer ==
    LET r == createTimezoneTransformer(heap, host, timezoneConfig, response)
    IN  /\ last.op = "receive"
        /\ heap' = r.h
        /\ last' = [op |-> "createTimezoneTransformer", before |-> heap, arg |-> response,
                    ret |-> r.v]
        /\ UNCHANGED <<response, currencyConfig, timezoneConfig, host>>

\* updateCurrencyConfig(config): the partial config is spread over the
\* current one.
UpdateCurrencyConfig ==
    \E config \in CurrencyUpdates :
        /\ last.op \in {"new", "normalizeCurrencyConfig", "normalizeTimezoneConfig",
                        "updateCurrencyConfig", "request"}
        /\ currencyConfig' = config @@ currencyConfig
        /\ last' = [op |-> "updateCurrencyConfig", config |-> config,
                    prior |-> currencyConfig]
        /\ UNCHANGED <<heap, response, timezoneConfig, host>>

\* The tail of request(): response.data goes through the timezone
\* transformer when timezoneConfig.enabled, then through the currency
\* transformer, made from the whole currency configuration, when
\* currencyConfig.enabled.  No custom responseTransformer is configured.
Request_Timezone(r, hst, config) ==
    IF Opt(config, "enabled", FALSE) THEN createTimezoneTransformer(r.h, hst, config, r.v)
    ELSE Ret(r.h, r.v)

Request_Currency(t, config) ==
    IF IsThrown(t.v) \/ ~config["enabled"] THEN t
    ELSE createCurrencyTransformer(t.h, ConfigObject(config), t.v)

Request_Return(r, t) ==
    [op |-> "request", before |-> r.h, arg |-> r.v, after |-> t.h, ret |-> t.v]

\* response.data is local to the call: `last` holds it (before, arg) and
\* what the call returned (after, ret).
Request ==
    \E r \in Responses :
        /\ last.op \in {"new", "normalizeCurrencyConfig", "normalizeTimezoneConfig",
                        "updateCurrencyConfig"}
        /\ last' = Request_Return(r, Request_Currency(Request_Timezone(r, host, timezoneConfig),
                                                      currencyConfig))
        /\ UNCHANGED <<heap, response, currencyConfig, timezoneConfig, host>>


\* The objects handed to the functions together with a caller-supplied
\* pattern: two responses and the `timestamp` object of one of them.  None
\* holds more than one string the pattern matches, so the order in which
\* `for (const key in obj)` visits the keys does not show in what
\* detectDateStrings returns.
PatternObjects == {ZonedOrder, Tracked, Input(Tracked.h, Ref(2))}

\* The configuration of a caller who converts UTC dates to Tokyo time and
\* supplies `pattern` as datePattern.
PatternConfig(hst, pattern) ==
    normalizeTimezoneConfig(hst, ObjOptions(("enabled" :> TRUE)
                                              @@ ("targetTimezone" :> Str("Asia/Tokyo"))
                                              @@ ("datePattern" :> pattern)))

\* const p = new RegExp(source, flags); isDateString(str, p)
IsDateStringPattern ==
    \E str \in DateCandidates, global \in BOOLEAN :
        LET r == isDateStringWith(<<RegExpCell(global)>>, host, str, Ref(1))
        IN  /\ last.op = "new"
            /\ heap' = r.h
            /\ last' = [op |-> "isDateString pattern", str |-> str, pattern |-> Ref(1),
                        ret |-> r.v]
            /\ UNCHANGED <<response, currencyConfig, timezoneConfig, host>>

\* isDateString(str, p) once more, with the same string and the same p.
IsDateStringPatternAgain ==
    LET r == isDateStringWith(heap, host, last.str, last.pattern)
    IN  /\ last.op = "isDateString pattern"
        /\ heap' = r.h
        /\ last' = [op |-> "isDateString pattern again", str |-> last.str,
                    pattern |-> last.pattern, first |-> last.ret, ret |-> r.v]
        /\ UNCHANGED <<response, currencyConfig, timezoneConfig, host>>

\* detectDateStrings(obj, p)
DetectDateStringsPattern ==
    \E r \in PatternObjects, global \in BOOLEAN :
        LET pattern == Ref(Len(r.h) + 1)
            d == detectDateStringsWith(Append(r.h, RegExpCell(global)), host, r.v, pattern)
        IN  /\ last.op = "new"
            /\ heap' = d.h
            /\ last' = [op |-> "detectDateStrings pattern", arg |-> r.v, pattern |-> pattern,
                        ret |-> d.fields]
            /\ UNCHANGED <<response, currencyConfig, timezoneConfig, host>>

\* detectDateStrings(obj, p) once more, with the same obj and the same p.
DetectDateStringsPatternAgain ==
    LET d == detectDateStringsWith(heap, host, last.arg, last.pattern)
    IN  /\ last.op = "detectDateStrings pattern"
        /\ heap' = d.h
        /\ last' = [op |-> "detectDateStrings pattern again", arg |-> last.arg,
                    pattern |-> last.pattern, first |-> last.ret, ret |-> d.fields]
        /\ UNCHANGED <<response, currencyConfig, timezoneConfig, host>>

\* processObjectDates(obj, config) with config.datePattern = p
ProcessObjectDatesPattern ==
    \E r \in PatternObjects, global \in BOOLEAN :
        LET pattern == Ref(Len(r.h) + 1)
            t == processObjectDates(Append(r.h, RegExpCell(global)), host, r.v,
                                    PatternConfig(host, pattern), Undefined)
        IN  /\ last.op = "new"
            /\ heap' = t.h
            /\ last' = [op |-> "processObjectDates pattern", arg |-> r.v, pattern |-> pattern,
                        ret |-> Deref(t.h, t.v)]
            /\ UNCHANGED <<response, currencyConfig, timezoneConfig, host>>

\* processObjectDates(obj, config) once more, with the same obj and config.
ProcessObjectDatesPatternAgain ==
    LET t == processObjectDates(heap, host, last.arg, PatternConfig(host, last.pattern),
                                Undefined)
    IN  /\ last.op = "processObjectDates pattern"
        /\ heap' = t.h
        /\ last' = [op |-> "processObjectDates pattern again", arg |-> last.arg,
                    pattern |-> last.pattern, first |-> last.ret, ret |-> Deref(t.h, t.v)]
        /\ UNCHANGED <<response, currencyConfig, timezoneConfig, host>>

Next ==
    \/ ConfigureCurrency
    \/ ConfigureTimezone
    \/ Receive
    \/ FormatCurrencyValue
    \/ FormatCurrencyValueLoose
    \/ IsCurrencyField
    \/ IsDateString
    \/ FormatDateTime
    \/ ConvertDateTimezone
    \/ ConvertDateTimezoneBack
    \/ ExtractCurrencyInfo
    \/ ProcessObjectCurrency
    \/ ProcessObjectCurrencyAgain
    \/ CurrencyTransformer
    \/ CurrencyTransformerOfConfig
    \/ ProcessObjectDates
    \/ ProcessObjectDatesAgain
    \/ TimezoneTransformer
    \/ UpdateCurrencyConfig
    \/ Request
    \/ IsDateStringPattern
    \/ IsDateStringPatternAgain
    \/ DetectDateStringsPattern
    \/ DetectDateStringsPatternAgain
    \/ ProcessObjectDatesPattern
    \/ ProcessObjectDatesPatternAgain

Spec == Init /\ [][Next]_vars

\* The currency pipeline alone.  None of its functions reads the host, so
\* one host stands for all.
CurrencyInit == Init /\ host = [tz |-> "UTC", strictDates |-> TRUE, midnight24 |-> FALSE]

CurrencyNext ==
    \/ ConfigureCurrency
    \/ Receive
    \/ FormatCurrencyValue
    \/ FormatCurrencyValueLoose
    \/ IsCurrencyField
    \/ ExtractCurrencyInfo
    \/ ProcessObjectCurrency
    \/ ProcessObjectCurrencyAgain
    \/ CurrencyTransformer
    \/ CurrencyTransformerOfConfig

CurrencySpec == CurrencyInit /\ [][CurrencyNext]_vars

\* Both walkers and both transformers over every response, under every
\* configuration and on every host.
WalkNext ==
    \/ ConfigureCurrency
    \/ ConfigureTimezone
    \/ Receive
    \/ ProcessObjectCurrency
    \/ ProcessObjectCurrencyAgain
    \/ CurrencyTransformer
    \/ ProcessObjectDates
    \/ TimezoneTransformer

WalkSpec == Init /\ [][WalkNext]_vars

\* The client: its configuration, updates of it, and requests.
ClientNext ==
    \/ ConfigureCurrency
    \/ ConfigureTimezone
    \/ UpdateCurrencyConfig
    \/ Request

ClientSpec == Init /\ [][ClientNext]_vars

\* The timezone pipeline alone, on every host.
\* The date functions called with a caller-supplied pattern.
PatternNext ==
    \/ IsDateStringPattern
    \/ IsDateStringPatternAgain
    \/ DetectDateStringsPattern
    \/ DetectDateStringsPatternAgain
    \/ ProcessObjectDatesPattern
    \/ ProcessObjectDatesPatternAgain

PatternSpec == Init /\ [][PatternNext]_vars

DateNext ==
    \/ ConfigureTimezone
    \/ Receive
    \/ IsDateString
    \/ FormatDateTime
    \/ ConvertDateTimezone
    \/ ConvertDateTimezoneBack
    \/ ProcessObjectDates
    \/ ProcessObjectDatesAgain
    \/ TimezoneTransformer

DateSpec == Init /\ [][DateNext]_vars

(***************************************************************************)
(* Properties.                                                             *)
(***************************************************************************)

\* `_original_<k>` siblings of the output `out` (heap ha) of a walk over
\* `in` (heap hb): at every depth, one is added next to k exactly when k was
\* rewritten to a string and `preserve` is set, it holds k's old value, and
\* no other key is added.
RECURSIVE OriginalsAsConfigured(_, _, _, _, _)
OriginalsAsConfigured(hb, in, ha, out, preserve) ==
    IF ~IsRef(in) \/ in = Null THEN TRUE
    ELSE IF hb[in.a].kind = "arr" THEN
        /\ IsArray(ha, out)
        /\ Len(ha[out.a].items) = Len(hb[in.a].items)
        /\ \A i \in 1..Len(hb[in.a].items) :
              OriginalsAsConfigured(hb, hb[in.a].items[i], ha, ha[out.a].items[i], preserve)
    ELSE
        LET fi == hb[in.a].f
            fo == ha[out.a].f
            added(k) == ("_original_" \o k) \in DOMAIN fo \ DOMAIN fi
            rewritten(k) == fo[k] # fi[k] /\ ~IsRef(fi[k]) /\ typeof(fo[k]) = "string"
        IN  /\ IsPlainObject(ha, out)
            /\ DOMAIN fi \subseteq DOMAIN fo
            /\ \A k \in DOMAIN fi :
                  /\ added(k) <=> (rewritten(k) /\ preserve)
                  /\ added(k) => fo["_original_" \o k] = fi[k]
                  /\ OriginalsAsConfigured(hb, fi[k], ha, fo[k], preserve)
            /\ \A k \in DOMAIN fo \ DOMAIN fi :
                  \E k0 \in DOMAIN fi : k = "_original_" \o k0

\* C1: after processObjectCurrency with a CurrencyInfo present, `_original_<k>`
\* is added next to k if and only if k was rewritten to a formatted string and
\* config.preserveOriginal is true, and it holds k's pre-transform value; with
\* preserveOriginal false no `_original_` key is added at any depth.
C1_OriginalsFollowPreserveOriginal ==
    (last.op = "processObjectCurrency" /\ Truthy(last.currencyInfo) /\ ~IsThrown(last.ret))
        => OriginalsAsConfigured(last.before, last.arg, heap, last.ret,
                                 currencyConfig["preserveOriginal"])

\* C2: processObjectCurrency applied to its own output returns a value equal
\* to that output: no field is formatted again and every `_original_<k>`
\* keeps the value k had before the first application.
C2_ReapplyingChangesNothing ==
    (last.op = "processObjectCurrency again" /\ ~IsThrown(last.ret))
        => Deref(heap, last.ret) = Deref(last.before, last.arg)

\* C3: the functions createCurrencyTransformer and createTimezoneTransformer
\* return are total: on every decoded response, under every configuration,
\* they return a value and raise nothing.
C3_TransformersNeverRaise ==
    last.op \in {"createCurrencyTransformer", "createTimezoneTransformer"}
        => ~IsThrown(last.ret)

\* The calls that walk a response.
Walks ==
    {"processObjectCurrency", "processObjectCurrency again", "processObjectDates",
     "createCurrencyTransformer", "createTimezoneTransformer"}

\* C4: processObjectCurrency and processObjectDates never mutate their
\* input: after the call every object and array that existed before it holds
\* what it held, so the input graph reads the same at every depth.
C4_InputNotMutated ==
    last.op \in Walks
        => /\ Len(heap) >= Len(last.before)
           /\ SubSeq(heap, 1, Len(last.before)) = last.before
           /\ Deref(heap, last.arg) = Deref(last.before, last.arg)

\* C4's case: a walk of a response with a nested object rewrote a field in it.
C4_NestedFieldRewritten ==
    /\ last.op = "processObjectCurrency"
    /\ IsPlainObject(heap, last.ret)
    /\ \E k \in Keys(last.before, last.arg) :
          /\ IsPlainObject(last.before, Get(last.before, last.arg, k))
          /\ Deref(heap, Get(heap, last.ret, k))
               # Deref(last.before, Get(last.before, last.arg, k))

\* A rendered number n: `unit` fraction digits after a '.', an integer part
\* in groups of three separated by ',', an optional leading '-'.
RenderedShape(n, unit) ==
    LET body == IF startsWith(n, "-") THEN SubSeq(n, 2, Len(n)) ELSE n
        cut == IF unit > 0 THEN Len(body) - unit - 1 ELSE Len(body)
        int == SubSeq(body, 1, cut)
    IN  /\ cut >= 1
        /\ unit > 0 => Char(body, cut + 1) = "." /\ AllDigits(body, cut + 2, Len(body))
        /\ \A i \in 1..cut : IF i > 1 /\ (cut - i + 1) % 4 = 0
                             THEN Char(int, i) = ","
                             ELSE IsDigit(int, i)

\* The integer the digits of n spell once '-', ',' and '.' are dropped.
RECURSIVE RenderedDigits(_, _, _)
RenderedDigits(n, i, acc) ==
    IF i > Len(n) THEN acc
    ELSE RenderedDigits(n, i + 1, IF IsDigit(n, i) THEN 10 * acc + DigitVal(Char(n, i)) ELSE acc)

C6_NormalizedCurrencyConfig ==
    last.op = "normalizeCurrencyConfig" =>
        LET o == last.options
            c == currencyConfig
            switches == {"enabled", "autoFormat", "preserveOriginal"}
        IN  /\ switches \cup {"currencyFields"} \subseteq DOMAIN c
            /\ \A k \in switches : c[k] \in BOOLEAN
            /\ o.kind = "undefined" => \A k \in switches : c[k] = FALSE
            /\ o.kind = "boolean" => \A k \in switches : c[k] = o.b
            /\ o.kind = "object" =>
                  /\ c["enabled"] = ("enabled" \in DOMAIN o.o /\ o.o["enabled"])
                  /\ \A k \in {"autoFormat", "preserveOriginal"} :
                        c[k] = IF k \in DOMAIN o.o THEN o.o[k] ELSE c["enabled"]

\* C6's case: the caller enabled formatting and wrote autoFormat: false only.
C6_ExplicitFalseKept ==
    /\ last.op = "normalizeCurrencyConfig"
    /\ last.options = ObjOptions(("enabled" :> TRUE) @@ ("autoFormat" :> FALSE))
    /\ currencyConfig["autoFormat"] = FALSE
    /\ currencyConfig["preserveOriginal"] = TRUE

\* The four places a response may carry its CurrencyInfo, in probing order.
CurrencyProbes(h, resp) ==
    <<Get(h, resp, "currency"),
      Get(h, Get(h, resp, "cart"), "currency"),
      Get(h, Get(h, resp, "data"), "currency"),
      Get(h, Get(h, resp, "store_info"), "currency")>>

C8_CurrencyFieldRule ==
    last.op = "isCurrencyField" =>
        LET n == last.fieldName
            known == {last.currencyFields[i] : i \in 1..Len(last.currencyFields)}
            tail(f) == \E cut \in 0..Len(n) : SubSeq(n, cut + 1, Len(n)) = "_" \o f
            infix(f) == \E from \in 1..Len(n), to \in 1..Len(n) : SubSeq(n, from, to) = f \o "_"
        IN  /\ last.ret <=> (n \in known \/ \E f \in known : tail(f) \/ infix(f))
            /\ (n = "line_subtotal_tax" /\ known = {"total", "tax"}) => last.ret
            /\ (n = "quantity" /\ known = {"price", "total"}) => ~last.ret

\* C8's case: 'line_subtotal_tax' was classified against ['total', 'tax'].
C8_InfixFieldAccepted ==
    /\ last.op = "isCurrencyField"
    /\ last.fieldName = "line_subtotal_tax"
    /\ last.currencyFields = <<"total", "tax">>
    /\ last.ret = TRUE

\* A string of the default shape names a calendar date and time of day that
\* exist.
PossibleDateTime(s) ==
    /\ DigitsToInt(s, 6, 7) \in 1..12
    /\ DigitsToInt(s, 9, 10) \in 1..DaysInMonth(DigitsToInt(s, 1, 4), DigitsToInt(s, 6, 7))
    /\ DigitsToInt(s, 12, 13) <= 23
    /\ DigitsToInt(s, 15, 16) <= 59
    /\ DigitsToInt(s, 18, 19) <= 59

\* C9: isDateString is true only of a string that matches the pattern and
\* parses to a valid instant: a string of the right shape that names an
\* impossible calendar date or time is rejected, as are '2023-10-15',
\* '10/15/2023' and every value that is no string.
C9_OnlyValidDatesAccepted ==
    (last.op = "isDateString" /\ last.ret) =>
        /\ typeof(last.str) = "string"
        /\ DEFAULT_DATE_PATTERN(last.str.s)
        /\ PossibleDateTime(last.str.s)

\* The wall-clock time an ISO-like string spells, in seconds.
WallClock(s) ==
    DaysFromCivil(DigitsToInt(s, 1, 4), DigitsToInt(s, 6, 7), DigitsToInt(s, 9, 10)) * 86400
      + DigitsToInt(s, 12, 13) * 3600 + DigitsToInt(s, 15, 16) * 60 + DigitsToInt(s, 18, 19)

\* C10: convertDateTimezone moves a wall-clock time from the source zone to
\* the target zone: with the target d hours ahead of the source the result
\* is the input plus d hours (12:00:00 in America/New_York is 17:00:00 in
\* Europe/London), whatever zone the host is set to.
C10_ShiftsByZoneDifference ==
    (/\ last.op = "convertDateTimezone"
     /\ IsTimeZone(last.sourceTimezone) /\ IsTimeZone(last.targetTimezone)
     /\ Len(last.dateStr) = 19 /\ DEFAULT_DATE_PATTERN(last.dateStr)) =>
        /\ DEFAULT_DATE_PATTERN(last.ret.s)
        /\ WallClock(last.ret.s)
             = WallClock(last.dateStr)
                 + (TzOffsetHours[last.targetTimezone] - TzOffsetHours[last.sourceTimezone])
                     * 3600

\* C11: conversion round-trips: a zone-less date string converted from zone A
\* to zone B and back from B to A denotes the time it denoted at the start,
\* to within a minute.
C11_ConversionRoundTrips ==
    (/\ last.op = "convertDateTimezone back"
     /\ IsTimeZone(last.sourceTimezone) /\ IsTimeZone(last.targetTimezone)
     /\ Len(last.dateStr) = 19 /\ DateParse(host, last.dateStr).valid) =>
        /\ DateParse(host, last.ret.s).valid
        /\ DateParse(host, last.ret.s).t - DateParse(host, last.dateStr).t \in -59..59

\* A step of convertDateTimezone fails on these arguments: the string is no
\* date, or a zone identifier is unknown.
ConversionFails(hst, dateStr, sourceTimezone, targetTimezone) ==
    \/ ~DateParse(hst, dateStr).valid
    \/ ~IsTimeZone(sourceTimezone)
    \/ ~IsTimeZone(targetTimezone)

\* C12: convertDateTimezone is fail-open: when the date string cannot be
\* parsed or the source or target zone is unknown, it returns the input
\* string unchanged and raises nothing.
C12_FailOpen ==
    (/\ last.op = "convertDateTimezone"
     /\ ConversionFails(host, last.dateStr, last.sourceTimezone, last.targetTimezone)) =>
        last.ret = Str(last.dateStr)


\* The zones processObjectDates(obj, config) converts between when no store
\* zone is passed.
SourceZone(config) ==
    IF Truthy(Opt(config, "storeTimezone", Undefined)) THEN config["storeTimezone"]
    ELSE Str("UTC")

TargetZone(hst, config) ==
    IF Truthy(Opt(config, "targetTimezone", Undefined)) THEN config["targetTimezone"]
    ELSE Str(hst.tz)

\* The date fields of the object with fields f: the listed names, or when
\* the list is empty every name that holds a date string.
DateFieldsOf(hst, f, config) ==
    LET listed == Opt(config, "dateFields", <<>>)
    IN  {k \in DOMAIN f :
            /\ typeof(f[k]) = "string" /\ isDateString(hst, f[k])
            /\ Len(listed) = 0 \/ \E i \in 1..Len(listed) : listed[i] = k}

\* In the output `out` (heap ha) of a walk over `in` (heap hb), every date
\* field at every depth holds its input converted once from the source to
\* the target zone, with the input kept beside it when originals are
\* preserved.
RECURSIVE DatesConverted(_, _, _, _, _, _)
DatesConverted(hb, in, ha, out, hst, config) ==
    IF ~IsRef(in) THEN TRUE
    ELSE IF hb[in.a].kind = "arr" THEN
        /\ IsArray(ha, out)
        /\ Len(ha[out.a].items) = Len(hb[in.a].items)
        /\ \A i \in 1..Len(hb[in.a].items) :
              DatesConverted(hb, hb[in.a].items[i], ha, ha[out.a].items[i], hst, config)
    ELSE
        LET fi == hb[in.a].f
            fo == ha[out.a].f
        IN  /\ IsPlainObject(ha, out)
            /\ DOMAIN fi \subseteq DOMAIN fo
            /\ \A k \in DateFieldsOf(hst, fi, config) :
                  /\ fo[k] = convertDateTimezone(hst, fi[k].s, SourceZone(config).s,
                                                 TargetZone(hst, config).s)
                  /\ Opt(config, "preserveOriginal", FALSE) =>
                        /\ ("_original_" \o k) \in DOMAIN fo
                        /\ fo["_original_" \o k] = fi[k]
            /\ \A k \in DOMAIN fi :
                  IsRef(fi[k]) => DatesConverted(hb, fi[k], ha, fo[k], hst, config)

\* C13: with differing source and target zones processObjectDates reaches
\* the date fields at every depth: every nested object and every object in
\* an array is visited, whether or not the key holding it is a listed date
\* field, and each date field found is converted (with its `_original_`
\* sibling beside it when originals are preserved).
C13_DatesReachedAtEveryDepth ==
    (/\ last.op = "processObjectDates"
     /\ SourceZone(timezoneConfig) # TargetZone(host, timezoneConfig)) =>
        DatesConverted(last.before, last.arg, heap, last.ret, host, timezoneConfig)


\* C14: the function createCurrencyTransformer(config) returns gives back
\* the response itself, unchanged, when config.enabled is false, when
\* config.autoFormat is false, or when the response carries no currency
\* info; only otherwise is the response processed.
C14_TransformerPassesThrough ==
    (/\ last.op \in {"createCurrencyTransformer", "createCurrencyTransformer(config)"}
     /\ IsRef(last.arg) \/ ~Truthy(last.arg)
     /\ \/ ~currencyConfig["enabled"]
        \/ ~currencyConfig["autoFormat"]
        \/ ~Truthy(extractCurrencyInfo(last.before, last.arg).v)) =>
        /\ last.ret = last.arg
        /\ heap = last.before


\* The store zone the timezone transformer reads off a response, before
\* falling back to the configured one.
StoreZoneOf(h, resp, config) ==
    LET info == Get(h, resp, "store_info")
        meta == Get(h, resp, "meta")
    IN  IF Truthy(info) /\ Truthy(Get(h, info, "timezone")) THEN Get(h, info, "timezone")
        ELSE IF Truthy(meta) /\ Truthy(Get(h, meta, "timezone")) THEN Get(h, meta, "timezone")
        ELSE SourceZone(config)

\* C15: the timezone no-op paths return the input itself: processObjectDates
\* returns obj, not a copy, with nothing reformatted and no `_original_` key
\* added, whenever the effective source zone equals the effective target
\* zone, and the function createTimezoneTransformer returns gives the
\* response back whenever config.enabled is false or the response is falsy.
C15_TimezoneNoOps ==
    /\ (/\ last.op = "processObjectDates"
        /\ SourceZone(timezoneConfig) = TargetZone(host, timezoneConfig)) =>
           (last.ret = last.arg /\ heap = last.before)
    /\ (/\ last.op = "createTimezoneTransformer"
        /\ \/ ~timezoneConfig["enabled"]
           \/ ~Truthy(last.arg)
           \/ StoreZoneOf(last.before, last.arg, timezoneConfig)
                = TargetZone(host, timezoneConfig)) =>
           (last.ret = last.arg /\ heap = last.before)

\* C15's case: an order with a date in it went through processObjectDates
\* with equal zones and came back as the same object.
C15_SameZonesSameObject ==
    /\ last.op = "processObjectDates"
    /\ SourceZone(timezoneConfig) = TargetZone(host, timezoneConfig)
    /\ IsPlainObject(last.before, last.arg)
    /\ isDateString(host, Get(last.before, last.arg, "date_created"))
    /\ last.ret = last.arg


\* The output `out` (heap ha) of a walk has the shape of its input `in`
\* (heap hb): a scalar is itself, an array an array of the same length with
\* its items in order, an object an object whose keys are the input's plus
\* `_original_<k>` keys of rewritten fields k; a field is rewritten (a
\* number or string became another string), or the original kept for a
\* rewritten field, or nested with the same shape, or equal to the input's.
RECURSIVE SameShape(_, _, _, _)
SameShape(hb, in, ha, out) ==
    IF ~IsRef(in) THEN out = in
    ELSE IF hb[in.a].kind = "arr" THEN
        /\ IsArray(ha, out)
        /\ Len(ha[out.a].items) = Len(hb[in.a].items)
        /\ \A i \in 1..Len(hb[in.a].items) :
              SameShape(hb, hb[in.a].items[i], ha, ha[out.a].items[i])
    ELSE
        LET fi == hb[in.a].f
            fo == ha[out.a].f
            scalar(k) == typeof(fi[k]) \in {"number", "string"}
            rewritten(k) == scalar(k) /\ typeof(fo[k]) = "string" /\ fo[k] # fi[k]
            original(k) == \E k0 \in DOMAIN fi :
                              /\ k = "_original_" \o k0
                              /\ scalar(k0) /\ typeof(fo[k0]) = "string"
        IN  /\ IsPlainObject(ha, out)
            /\ DOMAIN fi \subseteq DOMAIN fo
            /\ \A k \in DOMAIN fo \ DOMAIN fi : original(k)
            /\ \A k \in DOMAIN fi :
                  IF IsRef(fi[k]) THEN IsRef(fo[k]) /\ SameShape(hb, fi[k], ha, fo[k])
                  ELSE fo[k] = fi[k] \/ rewritten(k) \/ original(k)

C17_NormalizedTimezoneConfig ==
    last.op = "normalizeTimezoneConfig" =>
        LET defaults == [enabled |-> FALSE, storeTimezone |-> Str("UTC"),
                         targetTimezone |-> Str(host.tz),
                         dateFields |-> COMMON_DATE_FIELDS, preserveOriginal |-> FALSE]
            options == last.options
        IN  /\ DOMAIN defaults \subseteq DOMAIN timezoneConfig
            /\ options.kind \notin {"boolean", "object"} => timezoneConfig = defaults
            /\ options.kind = "boolean" =>
                  timezoneConfig = [defaults EXCEPT !.enabled = options.b]
            /\ options.kind = "object" =>
                  /\ DOMAIN timezoneConfig = DOMAIN defaults \cup DOMAIN options.o
                  /\ \A k \in DOMAIN options.o : timezoneConfig[k] = options.o[k]
                  /\ \A k \in DOMAIN defaults \ DOMAIN options.o :
                        timezoneConfig[k] = defaults[k]

\* C17's case: `true` was normalized on a host in New York.
C17_BooleanOnlyEnables ==
    /\ last.op = "normalizeTimezoneConfig"
    /\ last.options = BoolOptions(TRUE)
    /\ host.tz = "America/New_York"
    /\ timezoneConfig["enabled"] /\ ~timezoneConfig["preserveOriginal"]
    /\ timezoneConfig["targetTimezone"] = Str("America/New_York")


\* C18: with config.enabled false processObjectCurrency returns obj
\* unchanged, no field formatted and no `_original_` key added, also when a
\* valid CurrencyInfo is at hand and obj holds numeric currency fields.
C18_DisabledLeavesObjectAlone ==
    (/\ last.op = "processObjectCurrency"
     /\ ~currencyConfig["enabled"]) =>
        Deref(heap, last.ret) = Deref(last.before, last.arg)


\* The configuration in force came from options in which the caller wrote no
\* dateFields.
NoDateFieldsSupplied ==
    \E o \in TimezoneOptions :
        /\ ~(o.kind = "object" /\ "dateFields" \in DOMAIN o.o)
        /\ timezoneConfig = normalizeTimezoneConfig(host, o)

\* In the output `out` (heap ha) of a walk over `in` (heap hb), at every
\* depth, each immediate string field that isDateString accepts holds its
\* conversion from `source` to `target`, whatever its name, and every other
\* scalar field holds what it held.
RECURSIVE DetectedDatesConverted(_, _, _, _, _, _, _)
DetectedDatesConverted(hb, in, ha, out, hst, source, target) ==
    IF ~IsRef(in) THEN out = in
    ELSE IF hb[in.a].kind = "arr" THEN
        /\ IsArray(ha, out)
        /\ Len(ha[out.a].items) = Len(hb[in.a].items)
        /\ \A i \in 1..Len(hb[in.a].items) :
              DetectedDatesConverted(hb, hb[in.a].items[i], ha, ha[out.a].items[i],
                                     hst, source, target)
    ELSE
        LET fi == hb[in.a].f
            fo == ha[out.a].f
        IN  /\ IsPlainObject(ha, out)
            /\ DOMAIN fi \subseteq DOMAIN fo
            /\ \A k \in DOMAIN fi :
                  IF typeof(fi[k]) = "string" /\ isDateString(hst, fi[k])
                  THEN fo[k] = convertDateTimezone(hst, fi[k].s, source, target)
                  ELSE IF IsRef(fi[k])
                  THEN DetectedDatesConverted(hb, fi[k], ha, fo[k], hst, source, target)
                  ELSE fo[k] = fi[k]

\* C19: when the caller supplies no dateFields (timezoneConversion: true, or
\* an options object without the key), the fields converted in each visited
\* object are the auto-detected ones: every immediate string field that
\* isDateString accepts, whatever its name (`created`, say), and no other.
C19_AutoDetectWithoutDateFields ==
    (/\ last.op = "processObjectDates"
     /\ NoDateFieldsSupplied
     /\ SourceZone(timezoneConfig) # TargetZone(host, timezoneConfig)) =>
        DetectedDatesConverted(last.before, last.arg, heap, last.ret, host,
                               SourceZone(timezoneConfig).s,
                               TargetZone(host, timezoneConfig).s)


\* A key the currency walker is to pass over.
MarkedProcessed(k) == startsWith(k, "_original_") \/ includes(k, "formatted_")

\* In the output `out` (heap ha) of a walk over `in` (heap hb), at every
\* depth, what a marked key holds reads as it did in the input, and no
\* `_original_` sibling was added for it.
RECURSIVE MarkedKeysUntouched(_, _, _, _)
MarkedKeysUntouched(hb, in, ha, out) ==
    IF ~IsRef(in) \/ ~IsRef(out) THEN TRUE
    ELSE IF hb[in.a].kind = "arr" THEN
        \A i \in 1..Len(hb[in.a].items) :
            i <= Len(ha[out.a].items) =>
                MarkedKeysUntouched(hb, hb[in.a].items[i], ha, ha[out.a].items[i])
    ELSE
        LET fi == hb[in.a].f
            fo == ha[out.a].f
        IN  \A k \in DOMAIN fi \cap DOMAIN fo :
                IF MarkedProcessed(k)
                THEN /\ Deref(ha, fo[k]) = Deref(hb, fi[k])
                     /\ ("_original_" \o k) \notin DOMAIN fo \ DOMAIN fi
                ELSE MarkedKeysUntouched(hb, fi[k], ha, fo[k])

\* C20: processObjectCurrency skips every key that starts with `_original_`
\* or contains `formatted_`: its value in the output is the input's, it is
\* not formatted, gets no `_original_` sibling, and an object or array under
\* it is not walked.
C20_MarkedKeysSkipped ==
    (last.op = "processObjectCurrency" /\ ~IsThrown(last.ret)) =>
        MarkedKeysUntouched(last.before, last.arg, heap, last.ret)


\* In the output `out` (heap ha) of a currency walk over `in` (heap hb) with
\* `info`: at every depth a numeric value under a currency field name is the
\* formatted string, any other value under such a name that is no object or
\* array is the input's, and every object or array, whatever key holds it,
\* has been walked in the same way.
RECURSIVE FormattedAtEveryDepth(_, _, _, _, _, _)
FormattedAtEveryDepth(hb, in, ha, out, info, currencyFields) ==
    IF ~IsRef(in) THEN out = in
    ELSE IF ~IsRef(out) THEN FALSE
    ELSE IF hb[in.a].kind = "arr" THEN
        /\ ha[out.a].kind = "arr"
        /\ Len(ha[out.a].items) = Len(hb[in.a].items)
        /\ \A i \in 1..Len(hb[in.a].items) :
              FormattedAtEveryDepth(hb, hb[in.a].items[i], ha, ha[out.a].items[i],
                                    info, currencyFields)
    ELSE
        LET fi == hb[in.a].f
            fo == ha[out.a].f
        IN  \A k \in DOMAIN fi :
                /\ k \in DOMAIN fo
                /\ IF IsRef(fi[k]) THEN
                       FormattedAtEveryDepth(hb, fi[k], ha, fo[k], info, currencyFields)
                   ELSE IF isCurrencyField(k, currencyFields) /\ ~NotNumeric(fi[k])
                             /\ ~MarkedProcessed(k) THEN
                       fo[k] = formatCurrencyValue(hb, fi[k], info)
                   ELSE MarkedProcessed(k) \/ fo[k] = fi[k]

\* C21: processObjectCurrency recurses into every nested object or array,
\* also one stored under a key that isCurrencyField accepts, so a numeric
\* currency field is formatted at whatever depth it sits; a currency-named
\* field that holds no number is never replaced by a formatted string.
C21_FormattedAtEveryDepth ==
    (last.op = "processObjectCurrency" /\ ~IsThrown(last.ret) /\ Truthy(last.currencyInfo)) =>
        FormattedAtEveryDepth(last.before, last.arg, heap, last.ret, last.currencyInfo,
                              currencyConfig["currencyFields"])


\* In the output `out` (heap ha) of a walk over `in` (heap hb) from zone
\* `source` to zone `target`, every date field at every depth holds what the
\* configured formatter returns for its converted date.
RECURSIVE FormatterApplied(_, _, _, _, _, _, _, _)
FormatterApplied(hb, in, ha, out, hst, config, source, target) ==
    IF ~IsRef(in) \/ ~IsRef(out) THEN TRUE
    ELSE IF hb[in.a].kind = "arr" THEN
        \A i \in 1..Len(hb[in.a].items) :
            i <= Len(ha[out.a].items) =>
                FormatterApplied(hb, hb[in.a].items[i], ha, ha[out.a].items[i],
                                 hst, config, source, target)
    ELSE
        LET fi == hb[in.a].f
            fo == ha[out.a].f
        IN  /\ \A k \in DateFieldsOf(hst, fi, config) \cap DOMAIN fo :
                  fo[k] = dateTimeFormatter(
                              hst,
                              DateParse(hst, convertDateTimezone(hst, fi[k].s, source, target).s),
                              target)
            /\ \A k \in DOMAIN fi \cap DOMAIN fo :
                  FormatterApplied(hb, fi[k], ha, fo[k], hst, config, source, target)

\* C22: when config.dateTimeFormatter is provided, every field that
\* processObjectDates converts ends with dateTimeFormatter(convertedDate,
\* targetTimezone); the raw converted string is kept only without a
\* formatter.
C22_FormatterAlwaysApplied ==
    (/\ last.op = "processObjectDates"
     /\ Truthy(Opt(timezoneConfig, "dateTimeFormatter", Undefined))
     /\ SourceZone(timezoneConfig) # TargetZone(host, timezoneConfig)) =>
        FormatterApplied(last.before, last.arg, heap, last.ret, host, timezoneConfig,
                         SourceZone(timezoneConfig).s, TargetZone(host, timezoneConfig).s)


\* In the output `out` (heap ha) of a walk over `in` (heap hb), every date
\* field at every depth was converted from zone `source`: it holds its
\* input converted from `source` to `target`, once or over again, or what
\* the configured formatter made of that.
RECURSIVE ConvertedFrom(_, _, _, _, _, _, _, _)
ConvertedFrom(hb, in, ha, out, hst, config, source, target) ==
    IF ~IsRef(in) \/ ~IsRef(out) THEN TRUE
    ELSE IF hb[in.a].kind = "arr" THEN
        \A i \in 1..Len(hb[in.a].items) :
            i <= Len(ha[out.a].items) =>
                ConvertedFrom(hb, hb[in.a].items[i], ha, ha[out.a].items[i],
                              hst, config, source, target)
    ELSE
        LET fi == hb[in.a].f
            fo == ha[out.a].f
            once(k) == convertDateTimezone(hst, fi[k].s, source, target)
        IN  /\ \A k \in DateFieldsOf(hst, fi, config) \cap DOMAIN fo :
                  \/ fo[k] = once(k)
                  \/ fo[k] = convertDateTimezone(hst, once(k).s, source, target)
                  \/ /\ Truthy(Opt(config, "dateTimeFormatter", Undefined))
                     /\ fo[k] = dateTimeFormatter(hst, DateParse(hst, once(k).s), target)
            /\ \A k \in DOMAIN fi \cap DOMAIN fo :
                  ConvertedFrom(hb, fi[k], ha, fo[k], hst, config, source, target)

\* C23: the source zone of a response is response.store_info.timezone if
\* present, otherwise response.meta.timezone, otherwise config.storeTimezone,
\* otherwise 'UTC', and the zone resolved at the top of the response is the
\* one used for every nested object and array element.
C23_SourceZoneResolved ==
    (/\ last.op = "createTimezoneTransformer"
     /\ timezoneConfig["enabled"]
     /\ IsRef(last.arg)
     /\ StoreZoneOf(last.before, last.arg, timezoneConfig) # TargetZone(host, timezoneConfig)) =>
        ConvertedFrom(last.before, last.arg, heap, last.ret, host, timezoneConfig,
                      StoreZoneOf(last.before, last.arg, timezoneConfig).s,
                      TargetZone(host, timezoneConfig).s)

\* C23's case: a response naming Europe/London under store_info and
\* Asia/Tokyo under meta went through the transformer, and the date of its
\* line item was converted from Europe/London.
C23_StoreInfoZoneUsedInItems ==
    /\ last.op = "createTimezoneTransformer"
    /\ Get(last.before, Get(last.before, last.arg, "meta"), "timezone") = Str("Asia/Tokyo")
    /\ Get(last.before, Get(last.before, last.arg, "store_info"), "timezone")
         = Str("Europe/London")
    /\ IsArray(heap, Get(heap, last.ret, "items"))
    /\ Get(heap, heap[Get(heap, last.ret, "items").a].items[1], "date_added")
         = convertDateTimezone(host, "2023-10-15T11:30:00Z", "Europe/London",
                               TargetZone(host, timezoneConfig).s)
    /\ Get(heap, heap[Get(heap, last.ret, "items").a].items[1], "date_added")
         # Str("2023-10-15T11:30:00Z")


\* C24: the default formatter never throws: for every value and every
\* CurrencyInfo, a minor unit the number formatter rejects (negative, very
\* large) or a missing one included, it returns a string, the manual
\* symbol + toFixed(minor_unit) rendering when the number formatter fails.
C24_FormatterNeverThrows ==
    last.op \in {"formatCurrencyValue", "formatCurrencyValue loose"} =>
        LET unit == Opt(last.currency, "currency_minor_unit", Undefined)
            parsed == IF last.value.t = "string" THEN parseFloat(last.value.s) ELSE last.value
        IN  /\ ~IsThrown(last.ret)
            /\ last.ret.t = "string"
            /\ (~parsed.nan /\ NumberFormatRejects(unit)) =>
                  last.ret = Str(last.currency["currency_symbol"].s
                                   \o FixedDigits(parsed, unit.m, FALSE))


\* C25: formatDateTime never throws: when formatting fails, for an unknown
\* timezone identifier or a Date that is no valid instant, it returns the
\* date's absolute ISO string instead of raising.
C25_FormatDateTimeNeverThrows ==
    last.op = "formatDateTime" =>
        /\ ~IsThrown(last.ret)
        /\ last.ret.t = "string"
        /\ (last.date.valid /\ ~IsTimeZone(last.timezone)) =>
              last.ret = Str(toISOString(last.date))


\* With `in` (heap hb) the input of a first walk and `out` (heap ha) the
\* output of a second walk over the first one's output: beside every date
\* field, at every depth, `_original_<field>` still holds the input's date
\* string, and no original of an original was made.
RECURSIVE OriginalsKept(_, _, _, _, _, _)
OriginalsKept(hb, in, ha, out, hst, config) ==
    IF ~IsRef(in) \/ ~IsRef(out) THEN TRUE
    ELSE IF hb[in.a].kind = "arr" THEN
        \A i \in 1..Len(hb[in.a].items) :
            i <= Len(ha[out.a].items) =>
                OriginalsKept(hb, hb[in.a].items[i], ha, ha[out.a].items[i], hst, config)
    ELSE
        LET fi == hb[in.a].f
            fo == ha[out.a].f
        IN  /\ \A k \in DateFieldsOf(hst, fi, config) :
                  /\ ("_original_" \o k) \in DOMAIN fo
                  /\ fo["_original_" \o k] = fi[k]
            /\ \A k \in DOMAIN fo : ~startsWith(k, "_original__original_")
            /\ \A k \in DOMAIN fi \cap DOMAIN fo :
                  OriginalsKept(hb, fi[k], ha, fo[k], hst, config)

\* C26: an `_original_<field>` sibling written by processObjectDates is
\* never itself processed: applying processObjectDates again to its own
\* output, with the same configuration and preserveOriginal = true, the date
\* fields listed or auto-detected, leaves every `_original_<field>` equal to
\* the untransformed date string and creates no `_original__original_<field>`.
C26_OriginalsSurviveReapplication ==
    (/\ last.op = "processObjectDates again"
     /\ Opt(timezoneConfig, "preserveOriginal", FALSE)
     /\ SourceZone(timezoneConfig) # TargetZone(host, timezoneConfig)) =>
        OriginalsKept(last.first.h, last.first.v, heap, last.ret, host, timezoneConfig)


\* In the output `out` (heap ha) of a walk over `in` (heap hb) from zone
\* `source` to zone `target`: no date field, at any depth, holds its input
\* converted twice over, and no `_original_` sibling holds anything but the
\* input's date string.
RECURSIVE ConvertedOnce(_, _, _, _, _, _, _, _)
ConvertedOnce(hb, in, ha, out, hst, config, source, target) ==
    IF ~IsRef(in) \/ ~IsRef(out) THEN TRUE
    ELSE IF hb[in.a].kind = "arr" THEN
        \A i \in 1..Len(hb[in.a].items) :
            i <= Len(ha[out.a].items) =>
                ConvertedOnce(hb, hb[in.a].items[i], ha, ha[out.a].items[i],
                              hst, config, source, target)
    ELSE
        LET fi == hb[in.a].f
            fo == ha[out.a].f
            once(k) == convertDateTimezone(hst, fi[k].s, source, target)
            twice(k) == convertDateTimezone(hst, once(k).s, source, target)
        IN  /\ \A k \in DateFieldsOf(hst, fi, config) \cap DOMAIN fo :
                  /\ twice(k) # once(k) => fo[k] # twice(k)
                  /\ ("_original_" \o k) \in DOMAIN fo \ DOMAIN fi =>
                        fo["_original_" \o k] = fi[k]
            /\ \A k \in DOMAIN fi \cap DOMAIN fo :
                  ConvertedOnce(hb, fi[k], ha, fo[k], hst, config, source, target)

\* C27: within one processObjectDates call every nested object is processed
\* once and every date string converted once, also under a key listed in
\* dateFields: no converted value is converted again, and no
\* `_original_<field>` is overwritten with a converted value.
C27_EachDateConvertedOnce ==
    (/\ last.op = "processObjectDates"
     /\ SourceZone(timezoneConfig) # TargetZone(host, timezoneConfig)) =>
        ConvertedOnce(last.before, last.arg, heap, last.ret, host, timezoneConfig,
                      SourceZone(timezoneConfig).s, TargetZone(host, timezoneConfig).s)


\* The fields a CurrencyInfo record must carry.
RequiredCurrencyFields ==
    {"currency_code", "currency_symbol", "currency_minor_unit",
     "currency_decimal_separator", "currency_thousand_separator"}

IsCurrencyInfo(h, v) == IsPlainObject(h, v) /\ RequiredCurrencyFields \subseteq Keys(h, v)

\* C28: what extractCurrencyInfo returns, when not undefined, is a record
\* carrying the five required fields; a response whose currency is present
\* but is no such record counts as having no currency info, and the
\* currency transformer rewrites none of its fields.
C28_OnlyCurrencyRecordsExtracted ==
    /\ (last.op = "extractCurrencyInfo" /\ ~IsThrown(last.ret) /\ last.ret # Undefined) =>
          IsCurrencyInfo(heap, last.ret)
    /\ (/\ last.op = "createCurrencyTransformer"
        /\ IsRef(last.arg)
        /\ ~IsThrown(extractCurrencyInfo(last.before, last.arg).v)
        /\ ~IsCurrencyInfo(extractCurrencyInfo(last.before, last.arg).h,
                           extractCurrencyInfo(last.before, last.arg).v)) =>
          Deref(heap, last.ret) = Deref(last.before, last.arg)


\* The top-level currency fields of `in` (heap hb) that hold a number.
NumericCurrencyFields(hb, in) ==
    {k \in Keys(hb, in) :
        /\ isCurrencyField(k, COMMON_CURRENCY_FIELDS)
        /\ ~NotNumeric(hb[in.a].f[k])
        /\ ~MarkedProcessed(k)}

\* C29: on a client created with currency formatting off, after
\* updateCurrencyConfig({enabled: true}) autoFormat and preserveOriginal, not
\* having been specified, are both true and every later response has its
\* currency fields formatted with the originals preserved; after
\* updateCurrencyConfig({enabled: false}) every later response is returned
\* unformatted; a response is transformed with the configuration in force
\* when it is received.
C29_UpdatesTakeEffect ==
    /\ (/\ last.op = "updateCurrencyConfig"
        /\ last.config = ("enabled" :> TRUE)
        /\ last.prior = normalizeCurrencyConfig(NoOptions)) =>
          (currencyConfig["autoFormat"] /\ currencyConfig["preserveOriginal"])
    /\ (/\ last.op = "request"
        /\ IsPlainObject(last.before, last.arg)
        /\ ~IsThrown(last.ret)
        /\ IsCurrencyInfo(extractCurrencyInfo(last.before, last.arg).h,
                          extractCurrencyInfo(last.before, last.arg).v)) =>
          \A k \in NumericCurrencyFields(last.before, last.arg) :
              IF currencyConfig["enabled"]
              THEN /\ Get(last.after, last.ret, k)
                        = formatCurrencyValue(extractCurrencyInfo(last.before, last.arg).h,
                                              last.before[last.arg.a].f[k],
                                              extractCurrencyInfo(last.before, last.arg).v)
                   /\ Get(last.after, last.ret, "_original_" \o k)
                        = last.before[last.arg.a].f[k]
              ELSE /\ Get(last.after, last.ret, k) = last.before[last.arg.a].f[k]
                   /\ ~HasKey(last.after, last.ret, "_original_" \o k)


\* C30: isDateString, detectDateStrings and processObjectDates keep no state
\* between calls: called a second time with the same arguments, the same
\* caller-supplied datePattern object included, each returns what it
\* returned the first time.
C30_NoStateBetweenCalls ==
    last.op \in {"isDateString pattern again", "detectDateStrings pattern again",
                 "processObjectDates pattern again"}
        => last.ret = last.first

====
